---- MODULE Spec2Model ----
(***************************************************************************)
(* Thought Memory System: the SQLite-backed ThoughtStore with its vector   *)
(* index and session lineage (thought_wrapper/tms/store.py), the           *)
(* ThoughtGraph persisted on the same connection (tms/graph.py) and the    *)
(* ReflectionEngine (tms/reflection.py).                                   *)
(*                                                                         *)
(* One sqlite3 connection is shared by the store and the graph, so there   *)
(* is one transaction at a time: `db` is what the connection reads (its    *)
(* own uncommitted writes included), `committed` is the durable snapshot   *)
(* that rollback() returns to, `inTx` is Connection.in_transaction.        *)
(* Every action is one hold of the store's RLock; a public operation that  *)
(* takes the lock several times (add_thought, reflect, the lineage walk,   *)
(* lineage recall) runs as the in-flight `call`, one action per hold, and  *)
(* the single-hold operations of other threads interleave with it.         *)
(***************************************************************************)
EXTENDS Integers, Sequences, FiniteSets, TLC

\* ------------------------------------------------------------------ bounds
MaxBatch == 2      \* longest batch handed to batch_store
MaxEdges == 3      \* rows the edge table may hold

\* thought ids chosen by callers, and session ids
ThoughtIds == {1, 2}
SessionIds == {1, 2}

\* parent_session_id NULL / Python None
None == 0

\* ThoughtStore(embedding_dim=...): the dimension the store was built with
embedding_dim == 2

\* --------------------------------------------------------------- datetimes
\* A datetime is its instant and whether it carries a tzinfo.

\* naive datetimes are taken as UTC, aware ones keep their instant
_to_utc(dt) == [t |-> dt.t, aware |-> TRUE]

\* the ISO-8601 text of the UTC instant; texts of one offset order as instants
_dt_to_iso(dt) == _to_utc(dt).t

_iso_to_dt(value) == _to_utc([t |-> value, aware |-> TRUE])

\* ----------------------------------------------------------------- vectors
\* Components are integer-valued doubles.  np.float32 has a 24-bit
\* significand: every integer up to 2^24 is kept, and between 2^24 and 2^25
\* only the even ones are, an odd one rounding to the neighbour whose
\* significand is even (a multiple of 4).
F32Exact == 16777216

Abs(x) == IF x < 0 THEN -x ELSE x

Float32(x) ==
    IF Abs(x) <= F32Exact \/ x % 2 = 0 THEN x
    ELSE IF (x - 1) % 4 = 0 THEN x - 1 ELSE x + 1

\* np.asarray(vector, dtype=np.float32).tobytes(): the float32 components
_vector_to_blob(vector) == [i \in 1..Len(vector) |-> Float32(vector[i])]

\* np.frombuffer(blob, float32) with the size check; raises on a mismatch
blob_size_ok(blob, dim) == Len(blob) = dim

_blob_to_vector(blob, dim) == [i \in 1..Len(blob) |-> blob[i]]

RECURSIVE GCD(_, _)
GCD(a, b) == IF b = 0 THEN a ELSE GCD(b, a % b)

RECURSIVE VecGCD(_)
VecGCD(v) == IF Len(v) = 0 THEN 0 ELSE GCD(Abs(Head(v)), VecGCD(Tail(v)))

RECURSIVE SumSq(_)
SumSq(v) == IF Len(v) = 0 THEN 0 ELSE Head(v) * Head(v) + SumSq(Tail(v))

ISqrt(x) == CHOOSE r \in 0..x : r * r <= x /\ (r + 1) * (r + 1) > x

\* vec / ||vec||, the zero vector returned as it is.  The quotient is kept
\* as the exact fraction v / n in lowest terms (the norm is homogeneous, so
\* the common factor of the components cancels before squaring).
_normalize(vec) ==
    LET g == VecGCD(vec) IN
    IF g = 0 THEN [v |-> vec, n |-> 1]
    ELSE LET w == [i \in 1..Len(vec) |-> vec[i] \div g]
         IN [v |-> w, n |-> ISqrt(SumSq(w))]

\* ---------------------------------------------------------------- thoughts
\* Thought._validate_embedding: embedding_dim None means len(vector); the
\* constructor raises unless 0 < embedding_dim = len(embedding_vector).
_validate_embedding(vector, dimArg) ==
    LET dim == IF dimArg = None THEN Len(vector) ELSE dimArg
    IN dim > 0 /\ Len(vector) = dim

\* Thought(...) as the validator leaves it.  `text` stands for category,
\* confidence, tags, raw_text and cleaned_text, which are stored and read
\* back column by column.
Thought(id, ts, session_id, vector, tags, text) ==
    [id |-> id, timestamp_utc |-> ts, session_id |-> session_id,
     embedding_vector |-> vector, embedding_dim |-> Len(vector), tags |-> tags,
     text |-> text]

\* the Thought objects callers hand in: two contents for id 1 (the second
\* with a naive timestamp and a component float32 cannot hold), and for
\* id 2 one of the store's dimension and one of another dimension
ThoughtInputs ==
    { t \in { Thought(1, [t |-> 1, aware |-> TRUE], 1, <<1, 0>>, {"x"}, "a"),
              Thought(1, [t |-> 2, aware |-> FALSE], 2, <<16777217, 0>>, {}, "b"),
              Thought(2, [t |-> 2, aware |-> FALSE], 1, <<4, 3>>, {}, "c"),
              Thought(2, [t |-> 1, aware |-> TRUE], 2, <<1, 0, 0>>, {"x"}, "d") } :
      _validate_embedding(t.embedding_vector, t.embedding_dim) }

\* the parameters of INSERT INTO thoughts
thought_to_row(thought) ==
    [id |-> thought.id,
     timestamp_utc |-> _dt_to_iso(thought.timestamp_utc),
     session_id |-> thought.session_id,
     tags |-> thought.tags,
     embedding_dim |-> thought.embedding_dim,
     embedding_blob |-> _vector_to_blob(thought.embedding_vector),
     text |-> thought.text]

_row_to_thought(row) ==
    [id |-> row.id,
     timestamp_utc |-> _iso_to_dt(row.timestamp_utc),
     session_id |-> row.session_id,
     tags |-> row.tags,
     embedding_vector |-> _blob_to_vector(row.embedding_blob, row.embedding_dim),
     embedding_dim |-> row.embedding_dim,
     text |-> row.text]

\* ------------------------------------------------------------------- state
VARIABLES
    db,          \* the tables as the shared connection reads them
    committed,   \* the tables as last committed
    inTx,        \* Connection.in_transaction
    index,       \* the vector backend: rows [id, vec] in insertion order
    vbackend,    \* "numpy" or "faiss", fixed when the store is constructed
    graph_backend, \* the graph's in-memory projection: [name, nodes, edges]
    call,        \* the operation in flight that takes the lock several times
    lastStored,  \* history: per id, the Thought object last stored with success
    last         \* history: the operation that completed last

vars == <<db, committed, inTx, index, vbackend, graph_backend, call, lastStored, last>>

EmptyTables ==
    [sessions |-> << >>,   \* session_id -> parent_session_id (None for NULL)
     thoughts |-> << >>,   \* rows in rowid order, one per id
     nodes |-> << >>,      \* thought_id -> [session_id, timestamp_utc]
     edges |-> << >>]      \* rows in edge_id order

Idle == [op |-> "idle"]

\* _init_backend with neither networkx nor igraph installed: the name is
\* "builtin" and _graph_backend is None, so there is no projection to keep
NoBackend == [name |-> "builtin", nodes |-> {}, edges |-> {}]

RowIds(rows) == {rows[i].id : i \in 1..Len(rows)}

RowPos(rows, id) == CHOOSE i \in 1..Len(rows) : rows[i].id = id

IndexIds == {index[i].id : i \in 1..Len(index)}

Init ==
    /\ db = EmptyTables
    /\ committed = EmptyTables
    /\ inTx = FALSE
    /\ index = << >>
    /\ vbackend \in {"numpy", "faiss"}
    /\ graph_backend = NoBackend
    /\ call = Idle
    /\ lastStored = << >>
    /\ last = [op |-> "init", ok |-> TRUE]

\* ---------------------------------------------------------------- sessions
\* INSERT INTO sessions (sid, NULL, ...) ON CONFLICT(session_id) DO NOTHING
insert_session_if_absent(tables, sid) ==
    IF sid \in DOMAIN tables.sessions THEN tables
    ELSE [tables EXCEPT !.sessions = (sid :> None) @@ @]

\* INSERT INTO sessions ... ON CONFLICT(session_id) DO UPDATE SET
\* parent_session_id = excluded.parent_session_id
upsert_session(tables, sid, parent) ==
    [tables EXCEPT !.sessions = (sid :> parent) @@ @]

\* create_session(session_id, parent_session_id=parent, metadata=...).
\* badMeta: metadata that json.dumps cannot serialise.  The parent row is
\* inserted first, in a transaction sqlite3 opens implicitly; json.dumps is
\* evaluated while the arguments of the second execute are built, so its
\* TypeError leaves that transaction open: nothing rolls it back.
create_session_result(st, sid, parent, badMeta) ==
    LET withParent == IF parent # None
                      THEN insert_session_if_absent(st.db, parent) ELSE st.db
        opened == st.inTx \/ parent # None
    IN IF badMeta
       THEN [st EXCEPT !.db = withParent, !.inTx = opened, !.ok = FALSE]
       ELSE LET done == upsert_session(withParent, sid, parent)
            IN [st EXCEPT !.db = done, !.committed = done, !.inTx = FALSE,
                          !.ok = TRUE]

\* SELECT parent_session_id FROM sessions WHERE session_id = ?
get_session_parent(tables, sid) ==
    IF sid \in DOMAIN tables.sessions THEN tables.sessions[sid] ELSE None

\* ------------------------------------------------------------ vector index
\* _NumpyVectorBackend.upsert raises unless the vector has the store's
\* dimension.
upsert_dim_ok(vector) == Len(vector) = embedding_dim

\* _NumpyVectorBackend.upsert: the row of an id already held is overwritten,
\* a new id is appended.
upsert(idx, thought_id, vector) ==
    LET vec == _normalize(_vector_to_blob(vector))
        held == {i \in 1..Len(idx) : idx[i].id = thought_id}
    IN IF held # {}
       THEN [i \in 1..Len(idx) |->
                IF i \in held THEN [id |-> thought_id, vec |-> vec] ELSE idx[i]]
       ELSE Append(idx, [id |-> thought_id, vec |-> vec])

\* build(items): the index is replaced by the items, each normalised
build(items) ==
    [i \in 1..Len(items) |-> [id |-> items[i].id, vec |-> _normalize(items[i].vec)]]

\* SELECT id, embedding_blob, embedding_dim FROM thoughts, then build()
_rebuild_vector_index_locked(tables) ==
    build([i \in 1..Len(tables.thoughts) |->
             [id |-> tables.thoughts[i].id,
              vec |-> _blob_to_vector(tables.thoughts[i].embedding_blob,
                                      tables.thoughts[i].embedding_dim)]])

RECURSIVE upsert_all(_, _, _)
upsert_all(idx, batch, k) ==
    IF k = 0 THEN idx
    ELSE upsert(upsert_all(idx, batch, k - 1), batch[k].id, batch[k].embedding_vector)

\* the rows a rebuild can read back and stack into one matrix
rebuild_ok(tables) ==
    \A i \in 1..Len(tables.thoughts) :
        /\ blob_size_ok(tables.thoughts[i].embedding_blob, tables.thoughts[i].embedding_dim)
        /\ tables.thoughts[i].embedding_dim = embedding_dim

\* the tail of batch_store, after the commit.  numpy backend: upsert per
\* thought, stopping at the first vector upsert refuses.  faiss backend: a
\* rebuild from the table, which resets the index before it can fail.
update_index(st, batch) ==
    IF st.vbackend = "numpy"
    THEN LET bad == {i \in 1..Len(batch) : ~upsert_dim_ok(batch[i].embedding_vector)}
             k == IF bad = {} THEN Len(batch)
                  ELSE (CHOOSE i \in bad : \A j \in bad : i <= j) - 1
         IN [st EXCEPT !.index = upsert_all(st.index, batch, k), !.ok = (bad = {})]
    ELSE IF rebuild_ok(st.db)
         THEN [st EXCEPT !.index = _rebuild_vector_index_locked(st.db), !.ok = TRUE]
         ELSE [st EXCEPT !.index = << >>, !.ok = FALSE]

\* ------------------------------------------------------------- batch_store
\* mutant: the store's dimension is not compared
dims_unchecked(batch) == TRUE

\* the check made before the lock is taken
dims_ok(batch) == \A i \in 1..Len(batch) : batch[i].embedding_dim = embedding_dim

\* mutant: ON CONFLICT(id) DO NOTHING
insert_thought_row_or_ignore(rows, row) ==
    IF row.id \in RowIds(rows) THEN rows ELSE Append(rows, row)

\* INSERT INTO thoughts ... ON CONFLICT(id) DO UPDATE SET every column
upsert_thought_row(rows, row) ==
    IF row.id \in RowIds(rows)
    THEN [rows EXCEPT ![RowPos(rows, row.id)] = row]
    ELSE Append(rows, row)

\* one turn of the loop: the session row, then the thought row
insert_thought(tables, thought) ==
    [insert_session_if_absent(tables, thought.session_id)
        EXCEPT !.thoughts = upsert_thought_row(@, thought_to_row(thought))]

RECURSIVE insert_thoughts(_, _, _)
insert_thoughts(tables, batch, k) ==
    IF k = 0 THEN tables
    ELSE insert_thought(insert_thoughts(tables, batch, k - 1), batch[k])

\* mutant: the except branch does not roll back
rollback_keeps_rows(st) == [st EXCEPT !.inTx = FALSE]

\* Connection.rollback() and Connection.commit()
rollback(st) == [st EXCEPT !.db = st.committed, !.inTx = FALSE]

commit(st) == [st EXCEPT !.committed = st.db, !.inTx = FALSE]

Min(a, b) == IF a < b THEN a ELSE b

\* mutant: the index is updated inside the try, before the outcome is known
batch_store_failed_indexed(st, batch, failAt) ==
    [rollback([st EXCEPT !.db = insert_thoughts(st.db, batch, Min(failAt - 1, Len(batch))),
                         !.inTx = TRUE])
        EXCEPT !.index = upsert_all(st.index, batch, Min(failAt - 1, Len(batch)))]

\* the except branch of batch_store: statement number failAt raised after
\* the turns before it ran (failAt = Len(batch) + 1 is commit() raising)
batch_store_failed(st, batch, failAt) ==
    rollback([st EXCEPT !.db = insert_thoughts(st.db, batch, Min(failAt - 1, Len(batch))),
                        !.inTx = TRUE])

\* batch_store(thoughts).  failAt = 0: no statement raises.  BEGIN raises
\* when the connection is already in a transaction.
batch_store_result(st, batch, failAt) ==
    IF Len(batch) = 0 THEN [st EXCEPT !.ok = TRUE]
    ELSE IF ~dims_ok(batch) THEN [st EXCEPT !.ok = FALSE]
    ELSE IF st.inTx THEN [rollback(st) EXCEPT !.ok = FALSE]
    ELSE IF failAt > 0 THEN [batch_store_failed(st, batch, failAt) EXCEPT !.ok = FALSE]
    ELSE update_index(commit([st EXCEPT !.db = insert_thoughts(st.db, batch, Len(batch))]),
                      batch)

\* SELECT * FROM thoughts WHERE id = ?, then _row_to_thought; Absent for None
Absent == [id |-> None]

get_thought_by_id(tables, thought_id) ==
    IF thought_id \in RowIds(tables.thoughts)
    THEN _row_to_thought(tables.thoughts[RowPos(tables.thoughts, thought_id)])
    ELSE Absent

\* ------------------------------------------------------------------- graph
\* Edge weights and similarity scores are counted in 25ths (1.0 is 25): the
\* unit vectors of the model have norms 1 and 5, so every cosine is a whole
\* number of 25ths.
One == 25

Relations == {"semantic-similarity", "explicit-reference", "temporal-successor"}

\* a row of thought_graph_edges (edge_id is the position in the table)
EdgeRow(e) ==
    [source_id |-> e.source_id, target_id |-> e.target_id,
     relation |-> e.relation, weight |-> e.weight]

\* the loop of link_many over its first k tuples: self-edges are skipped,
\* every other tuple is inserted as it is
RECURSIVE insert_edges(_, _, _)
insert_edges(tables, edges, k) ==
    IF k = 0 THEN tables
    ELSE LET before == insert_edges(tables, edges, k - 1)
         IN IF edges[k].source_id = edges[k].target_id THEN before
            ELSE [before EXCEPT !.edges = Append(@, EdgeRow(edges[k]))]

\* the first tuple whose INSERT parameters cannot be built (json.dumps of
\* its metadata raises), 0 when there is none; a self-edge is skipped before
\* its parameters are built
first_bad_edge(edges) ==
    LET bad == {i \in 1..Len(edges) :
                   edges[i].badMeta /\ edges[i].source_id # edges[i].target_id}
    IN IF bad = {} THEN 0 ELSE CHOOSE i \in bad : \A j \in bad : i <= j

\* link_many with every INSERT committed as it is made
link_many_autocommit(st, edges, failAt) ==
    LET bad == first_bad_edge(edges)
        stop == IF bad # 0 /\ (failAt = 0 \/ bad <= failAt) THEN bad ELSE failAt
        upTo == IF stop > 0 THEN Min(stop - 1, Len(edges)) ELSE Len(edges)
    IN IF Len(edges) = 0 THEN [st EXCEPT !.ok = TRUE]
       ELSE [commit([st EXCEPT !.db = insert_edges(st.db, edges, upTo)])
             EXCEPT !.ok = (stop = 0)]

\* link_many(edges): BEGIN, one INSERT per tuple, commit; any exception
\* rolls the transaction back.  failAt as in batch_store_result.
link_many_result(st, edges, failAt) ==
    LET bad == first_bad_edge(edges)
        stop == IF bad # 0 /\ (failAt = 0 \/ bad <= failAt) THEN bad ELSE failAt
    IN IF Len(edges) = 0 THEN [st EXCEPT !.ok = TRUE]
       ELSE IF st.inTx THEN [rollback(st) EXCEPT !.ok = FALSE]
       ELSE IF stop > 0
            THEN [rollback([st EXCEPT
                      !.db = insert_edges(st.db, edges, Min(stop - 1, Len(edges))),
                      !.inTx = TRUE])
                  EXCEPT !.ok = FALSE]
       ELSE [commit([st EXCEPT !.db = insert_edges(st.db, edges, Len(edges))])
             EXCEPT !.ok = TRUE]

\* the tuples link() builds
link_edges(source_id, target_id, relation, weight, badMeta, bidirectional) ==
    LET e == [source_id |-> source_id, target_id |-> target_id, relation |-> relation,
              weight |-> weight, badMeta |-> badMeta]
        back == [source_id |-> target_id, target_id |-> source_id, relation |-> relation,
                 weight |-> weight, badMeta |-> badMeta]
    IN IF bidirectional THEN <<e, back>> ELSE <<e>>

\* link(source, target, relation=, weight=, metadata=, bidirectional=): a
\* self-edge returns at once, a negative weight raises, anything else goes
\* to link_many
link_result(st, source_id, target_id, relation, weight, badMeta, bidirectional, failAt) ==
    IF source_id = target_id THEN [st EXCEPT !.ok = TRUE]
    ELSE IF weight < 0 THEN [st EXCEPT !.ok = FALSE]
    ELSE link_many_result(st,
             link_edges(source_id, target_id, relation, weight, badMeta, bidirectional),
             failAt)

\* INSERT INTO thought_graph_nodes ... ON CONFLICT(thought_id) DO UPDATE,
\* then commit(): whatever the connection had pending is committed with it
upsert_node(st, thought) ==
    commit([st EXCEPT !.db.nodes =
               (thought.id :> [session_id |-> thought.session_id,
                               timestamp_utc |-> _dt_to_iso(thought.timestamp_utc)]) @@ @])

\* the rows of _link_temporal_successor's query with no session test
temporal_predecessors_any_session(tables, thought) ==
    LET cand == {n \in DOMAIN tables.nodes :
                    /\ n # thought.id
                    /\ tables.nodes[n].timestamp_utc <= _dt_to_iso(thought.timestamp_utc)}
    IN {n \in cand :
           \A m \in cand : tables.nodes[m].timestamp_utc <= tables.nodes[n].timestamp_utc}

\* SELECT thought_id FROM thought_graph_nodes WHERE session_id = ? AND
\* thought_id != ? AND timestamp_utc <= ? ORDER BY timestamp_utc DESC LIMIT 1:
\* the rows the query may return, SQLite being free to pick among rows of
\* the same greatest timestamp
temporal_predecessors(tables, thought) ==
    LET cand == {n \in DOMAIN tables.nodes :
                    /\ tables.nodes[n].session_id = thought.session_id
                    /\ n # thought.id
                    /\ tables.nodes[n].timestamp_utc <= _dt_to_iso(thought.timestamp_utc)}
    IN {n \in cand :
           \A m \in cand : tables.nodes[m].timestamp_utc <= tables.nodes[n].timestamp_utc}

\* SELECT target_id, relation FROM thought_graph_edges WHERE source_id = ?
\* LIMIT cap: the first cap out-edges of the node, in edge_id order
RECURSIVE out_edges(_, _, _)
out_edges(rows, node, cap) ==
    IF Len(rows) = 0 \/ cap <= 0 THEN << >>
    ELSE IF Head(rows).source_id = node
         THEN <<Head(rows)>> \o out_edges(Tail(rows), node, cap - 1)
         ELSE out_edges(Tail(rows), node, cap)

Max(a, b) == IF a > b THEN a ELSE b

\* the for loop of neighbors over the fetched rows: bfs is [seen, out, queue]
RECURSIVE neighbors_rows(_, _, _, _)
neighbors_rows(bfs, rows, relations, depth) ==
    IF Len(rows) = 0 THEN bfs
    ELSE LET nxt == Head(rows).target_id
             skip == \/ (relations # {} /\ Head(rows).relation \notin relations)
                     \/ nxt \in bfs.seen
             after == IF skip THEN bfs
                      ELSE [seen |-> bfs.seen \cup {nxt},
                            out |-> Append(bfs.out, nxt),
                            queue |-> Append(bfs.queue, <<nxt, depth + 1>>)]
         IN neighbors_rows(after, Tail(rows), relations, depth)

\* the while loop of neighbors
RECURSIVE neighbors_loop(_, _, _, _, _)
neighbors_loop(tables, bfs, hops, relations, limit) ==
    IF Len(bfs.queue) = 0 \/ Len(bfs.out) >= limit THEN bfs.out
    ELSE LET node == Head(bfs.queue)[1]
             depth == Head(bfs.queue)[2]
             popped == [bfs EXCEPT !.queue = Tail(@)]
             remaining == Max(1, limit - Len(bfs.out))
             fetch_cap == Max(remaining * 2, 8)
         IN IF depth >= hops
            THEN neighbors_loop(tables, popped, hops, relations, limit)
            ELSE neighbors_loop(tables,
                     neighbors_rows(popped, out_edges(tables.edges, node, fetch_cap),
                                    relations, depth),
                     hops, relations, limit)

\* neighbors(thought_id, hops=, relations=, limit=); relations {} for None
\* or an empty set, which the code treats alike
neighbors(tables, thought_id, hops, relations, limit) ==
    IF hops <= 0 THEN << >>
    ELSE neighbors_loop(tables,
             [seen |-> {thought_id}, out |-> << >>, queue |-> <<<<thought_id, 0>>>>],
             hops, relations, limit)

\* --------------------------------------------------------- semantic search
RECURSIVE Dot(_, _)
Dot(a, b) == IF Len(a) = 0 THEN 0 ELSE Head(a) * Head(b) + Dot(Tail(a), Tail(b))

\* the inner product of two normalised vectors, in 25ths
cosine(m, q) == (One * Dot(m.v, q.v)) \div (m.n * q.n)

\* a / b < c / d for positive denominators
FracLess(x, y) == x.num * y.den < y.num * x.den

\* the candidates as the loop appended them
keep_input_order(items) == items

\* list.sort(key=score, reverse=True): a stable insertion sort, greatest
\* score first, equal scores in their input order
RECURSIVE sort_by_score(_)
sort_by_score(items) ==
    IF Len(items) = 0 THEN << >>
    ELSE LET rest == sort_by_score(Tail(items))
             x == Head(items)
             \* x goes before the first element of rest that it is not less than
             ahead == {i \in 1..Len(rest) : ~FracLess(x.score, rest[i].score)}
             pos == IF ahead = {} THEN Len(rest) + 1
                    ELSE CHOOSE i \in ahead : \A j \in ahead : i <= j
         IN SubSeq(rest, 1, pos - 1) \o <<x>> \o SubSeq(rest, pos, Len(rest))

\* _NumpyVectorBackend.search / _FaissVectorBackend.search: (id, score) by
\* descending score, the best top_k of them
RECURSIVE index_scores(_, _)
index_scores(idx, q) ==
    IF Len(idx) = 0 THEN << >>
    ELSE <<[id |-> Head(idx).id,
            score |-> [num |-> cosine(Head(idx).vec, q), den |-> One]]>>
         \o index_scores(Tail(idx), q)

search(idx, query_vector, top_k) ==
    IF Len(idx) = 0 THEN << >>
    ELSE SubSeq(sort_by_score(index_scores(idx, _normalize(_vector_to_blob(query_vector)))),
                1, Max(1, Min(top_k, Len(idx))))

\* the query vector must have the store's dimension unless the index is empty
search_ok(idx, query_vector) == Len(idx) = 0 \/ Len(query_vector) = embedding_dim

\* ThoughtFilters(session_id=, start_time_utc=, end_time_utc=, tags_any=);
\* None and the empty tag set mean no filter.  category and min_confidence
\* are clauses of the same form as session_id and are not carried.
ThoughtFilters(session_id, start_time_utc, end_time_utc, tags_any) ==
    [session_id |-> session_id, start_time_utc |-> start_time_utc,
     end_time_utc |-> end_time_utc, tags_any |-> tags_any]

\* _row_matches_filters(row, filters)
_row_matches_filters(row, filters) ==
    /\ filters.session_id = None \/ row.session_id = filters.session_id
    /\ filters.start_time_utc = None \/ row.timestamp_utc >= filters.start_time_utc
    /\ filters.end_time_utc = None \/ row.timestamp_utc <= filters.end_time_utc
    /\ filters.tags_any = {} \/ row.tags \cap filters.tags_any # {}

NoFilters == ThoughtFilters(None, None, None, {})

\* SELECT * FROM thoughts WHERE id IN (...): SQLite probes the primary-key
\* index once per value of the list, least value first, so the rows come
\* in ascending id order
RECURSIVE _fetch_rows_by_ids_locked(_, _)
_fetch_rows_by_ids_locked(rows, ids) ==
    LET held == ids \cap RowIds(rows) IN
    IF held = {} THEN << >>
    ELSE LET least == CHOOSE i \in held : \A j \in held : i <= j
         IN <<rows[RowPos(rows, least)]>> \o _fetch_rows_by_ids_locked(rows, held \ {least})

RECURSIVE SelectRows(_, _)
SelectRows(rows, filters) ==
    IF Len(rows) = 0 THEN << >>
    ELSE (IF _row_matches_filters(Head(rows), filters) THEN <<Head(rows)>> ELSE << >>)
         \o SelectRows(Tail(rows), filters)

RECURSIVE MaxAge(_, _)
MaxAge(rows, now) ==
    IF Len(rows) = 0 THEN 1
    ELSE Max(Max(0, now - Head(rows).timestamp_utc), MaxAge(Tail(rows), now))

\* semantic_search(query_vector, filters=, limit=, alpha=) with the default
\* max_candidates = 500; alpha20 is alpha in 20ths.  Each result carries
\* semantic_score, recency_score and score as fractions num / den:
\*   recency = 1 - age / max_age
\*   score   = alpha * semantic + (1 - alpha) * recency
semantic_search(st, query_vector, filters, limit, alpha20, now) ==
    LET candidates == search(st.index, query_vector, Max(limit * 10, Min(500, 1000)))
        ids == {candidates[i].id : i \in 1..Len(candidates)}
        id_to_score == [id \in ids |->
            (CHOOSE c \in {candidates[i] : i \in 1..Len(candidates)} : c.id = id).score.num]
        rows == SelectRows(_fetch_rows_by_ids_locked(st.db.thoughts, ids), filters)
        max_age == MaxAge(rows, now)
        scored == [i \in 1..Len(rows) |->
            LET age == Max(0, now - rows[i].timestamp_utc)
                sem == id_to_score[rows[i].id]
            IN [thought |-> _row_to_thought(rows[i]),
                semantic_score |-> [num |-> sem, den |-> One],
                recency_score |-> [num |-> max_age - age, den |-> max_age],
                score |-> [num |-> alpha20 * sem * max_age
                                   + (20 - alpha20) * One * (max_age - age),
                           den |-> 20 * One * max_age]]]
        sorted == sort_by_score(scored)
    IN SubSeq(sorted, 1, Min(Len(sorted), Max(1, limit)))

\* ----------------------------------------------------------------- lineage
\* one turn of the while loop of get_session_lineage; w is [current,
\* visited, lineage]
lineage_done_unvisited(w) == w.current = None

lineage_done(w) == w.current = None \/ w.current \in w.visited

lineage_turn(tables, w) ==
    [current |-> get_session_parent(tables, w.current),
     visited |-> w.visited \cup {w.current},
     lineage |-> Append(w.lineage, w.current)]

lineage_start(tables, session_id, include_self) ==
    [current |-> IF include_self THEN session_id
                 ELSE get_session_parent(tables, session_id),
     visited |-> {},
     lineage |-> << >>]

RECURSIVE lineage_walk(_, _)
lineage_walk(tables, w) ==
    IF lineage_done(w) THEN w.lineage ELSE lineage_walk(tables, lineage_turn(tables, w))

\* get_session_lineage(session_id, include_self=) run against one state of
\* the tables
get_session_lineage(tables, session_id, include_self) ==
    lineage_walk(tables, lineage_start(tables, session_id, include_self))

Range(f) == {f[i] : i \in DOMAIN f}

Prefix(items, n) == SubSeq(items, 1, Min(Max(n, 0), Len(items)))

RECURSIVE KeepSessions(_, _)
KeepSessions(items, sessions) ==
    IF Len(items) = 0 THEN << >>
    ELSE (IF Head(items).thought.session_id \in sessions THEN <<Head(items)>> ELSE << >>)
         \o KeepSessions(Tail(items), sessions)

ScoredIds(items) == {items[i].thought.id : i \in 1..Len(items)}

\* the neighbour entry built from its seed: scores decayed by 0.85 = 17/20
decayed(seed, thought) ==
    [thought |-> thought,
     semantic_score |-> [num |-> seed.semantic_score.num * 17,
                         den |-> seed.semantic_score.den * 20],
     recency_score |-> seed.recency_score,
     score |-> [num |-> seed.score.num * 17, den |-> seed.score.den * 20]]

\* the inner loop of the expansion: the neighbours of one seed
RECURSIVE expand_neighbors(_, _, _, _, _)
expand_neighbors(tables, expanded, seed, ids, lineage_set) ==
    IF Len(ids) = 0 THEN expanded
    ELSE LET n_id == Head(ids)
             thought == get_thought_by_id(tables, n_id)
             skip == \/ n_id \in ScoredIds(expanded)
                     \/ thought = Absent
                     \/ thought.session_id \notin lineage_set
         IN expand_neighbors(tables,
                IF skip THEN expanded ELSE Append(expanded, decayed(seed, thought)),
                seed, Tail(ids), lineage_set)

\* the outer loop: one turn per seed
RECURSIVE expand_seeds(_, _, _, _, _)
expand_seeds(tables, expanded, seeds, lineage_set, graph_hops) ==
    IF Len(seeds) = 0 THEN expanded
    ELSE expand_seeds(tables,
             expand_neighbors(tables, expanded, Head(seeds),
                 neighbors(tables, Head(seeds).thought.id, graph_hops, {}, 25),
                 lineage_set),
             Tail(seeds), lineage_set, graph_hops)

\* recall_from_prior_sessions(query_vector, current_session_id=, graph=,
\* limit=, alpha=, graph_hops=).  The call only reads; its reads are taken
\* against one state of the tables.
recall_from_prior_sessions(st, query_vector, current_session_id, hasGraph, limit, alpha20, graph_hops, now) ==
    LET lineage == get_session_lineage(st.db, current_session_id, FALSE)
        lineage_set == Range(lineage)
        semantic == KeepSessions(
                        semantic_search(st, query_vector, NoFilters,
                                        Max(30, limit * 4), alpha20, now),
                        lineage_set)
    IN IF Len(lineage) = 0 THEN << >>
       ELSE IF ~hasGraph \/ graph_hops <= 0 THEN Prefix(semantic, limit)
       ELSE Prefix(sort_by_score(expand_seeds(st.db, semantic, Prefix(semantic, 5),
                                              lineage_set, graph_hops)),
                   limit)

\* ------------------------------------------------- single-hold operations
St == [db |-> db, committed |-> committed, inTx |-> inTx, index |-> index,
       vbackend |-> vbackend, ok |-> TRUE]

SetTables(r) ==
    /\ db' = r.db
    /\ committed' = r.committed
    /\ inTx' = r.inTx
    /\ index' = r.index
    /\ UNCHANGED vbackend

\* with the built-in backend _backend_add_node_locked and
\* _backend_add_edge_locked do nothing
SetState(r) ==
    /\ SetTables(r)
    /\ UNCHANGED graph_backend

RECURSIVE record_stored(_, _, _)
record_stored(hist, batch, k) ==
    IF k = 0 THEN hist
    ELSE (batch[k].id :> batch[k]) @@ record_stored(hist, batch, k - 1)

Batches == UNION {[1..n -> ThoughtInputs] : n \in 0..MaxBatch}

\* history of a store call: how it ended, and for a failed one the rows
\* read before it and how many turns of its loop had run
StoreOutcome(r, batch, failAt) ==
    IF r.ok THEN [ok |-> TRUE, why |-> "ok", ran |-> Len(batch), pre |-> << >>]
    ELSE [ok |-> FALSE,
          why |-> IF ~dims_ok(batch) THEN "validation"
                  ELSE IF inTx THEN "begin" ELSE "io",
          ran |-> IF dims_ok(batch) /\ ~inTx THEN Min(failAt - 1, Len(batch)) ELSE 0,
          pre |-> db.thoughts]

StoreCall(opname, batch, failAt) ==
    LET r == batch_store_result(St, batch, failAt) IN
    /\ SetState(r)
    /\ lastStored' = IF r.ok THEN record_stored(lastStored, batch, Len(batch))
                     ELSE lastStored
    /\ last' = [op |-> opname] @@ StoreOutcome(r, batch, failAt)
    /\ UNCHANGED call

batch_store ==
    \E batch \in Batches : \E failAt \in 0..(Len(batch) + 1) :
        StoreCall("batch_store", batch, failAt)

store ==
    \E thought \in ThoughtInputs : \E failAt \in 0..2 :
        StoreCall("store", <<thought>>, failAt)

create_session ==
    \E sid \in SessionIds, parent \in SessionIds \cup {None}, badMeta \in BOOLEAN :
        LET r == create_session_result(St, sid, parent, badMeta) IN
        /\ SetState(r)
        /\ last' = [op |-> "create_session", ok |-> r.ok]
        /\ UNCHANGED <<call, lastStored>>

\* ------------------------------------------------------------------ claims
\* C1: a store or batch_store call that fails, by the dimension check, by
\* BEGIN or by a statement raising part-way, leaves the thoughts table (as
\* read and as committed) exactly as it was before the call, so no thought
\* of the batch becomes visible to get_thought_by_id.
BatchStoreAllOrNothing ==
    (last.op \in {"store", "batch_store"} /\ ~last.ok) =>
        /\ db.thoughts = last.pre
        /\ committed.thoughts = last.pre
        /\ \A id \in ThoughtIds :
              get_thought_by_id(db, id) = get_thought_by_id([thoughts |-> last.pre], id)

\* a batch whose second statement raised, over a table that held a row
BatchFailedPartWay ==
    /\ last.op = "batch_store" /\ ~last.ok
    /\ last.why = "io" /\ last.ran >= 1
    /\ Len(db.thoughts) >= 1

\* C2: between operations the ids held by the vector index are the ids of
\* the persisted thoughts, whether the calls before succeeded or failed.
IndexMatchesPersisted ==
    /\ IndexIds = RowIds(db.thoughts)
    /\ IndexIds = RowIds(committed.thoughts)

\* a failed call after the index came to hold two ids
IndexKeptOnFailure ==
    /\ last.op \in {"store", "batch_store"} /\ ~last.ok /\ last.why # "validation"
    /\ Cardinality(IndexIds) = 2

\* C5: every persisted thought has a blob of embedding_dim components and
\* the store's embedding_dim; a thought of another dimension is refused.
PersistedDimsAgree ==
    /\ \A i \in 1..Len(db.thoughts) :
          /\ Len(db.thoughts[i].embedding_blob) = db.thoughts[i].embedding_dim
          /\ db.thoughts[i].embedding_dim = embedding_dim
    /\ (last.op \in {"store", "batch_store"} /\ last.ok = FALSE /\ last.why = "validation")
          => db.thoughts = last.pre

\* a batch refused by the dimension check while rows were persisted
DimMismatchRefused ==
    /\ last.op \in {"store", "batch_store"} /\ ~last.ok
    /\ last.why = "validation"
    /\ Len(db.thoughts) >= 1

\* C7 as claimed: get_thought_by_id returns the stored Thought equal in
\* every field (timestamps compared as UTC instants).
RoundTripEqual ==
    \A id \in DOMAIN lastStored :
        get_thought_by_id(db, id) = [lastStored[id] EXCEPT !.timestamp_utc = _to_utc(@)]

\* C7 amended: get_thought_by_id returns the Thought last stored under the
\* id with its timestamp as an aware UTC datetime of the same instant and
\* each embedding component rounded to float32; there is one row and one
\* index entry per id; an id never stored reads as absent.
RoundTripFloat32 ==
    /\ \A id \in DOMAIN lastStored :
          get_thought_by_id(db, id) =
              [lastStored[id] EXCEPT
                  !.timestamp_utc = _to_utc(@),
                  !.embedding_vector = [i \in 1..Len(@) |-> Float32(@[i])]]
    /\ \A id \in ThoughtIds \ DOMAIN lastStored : get_thought_by_id(db, id) = Absent
    /\ \A i, j \in 1..Len(db.thoughts) : db.thoughts[i].id = db.thoughts[j].id => i = j
    /\ \A i, j \in 1..Len(index) : index[i].id = index[j].id => i = j

\* id 1 stored twice with different contents while id 2 was never stored
StoredTwice ==
    /\ last.op = "store" /\ last.ok
    /\ 1 \in DOMAIN lastStored /\ lastStored[1].text = "b"
    /\ 2 \notin DOMAIN lastStored
    /\ Len(index) = 1

NextStore == create_session \/ store \/ batch_store

SpecStore == Init /\ [][NextStore]_vars

\* --------------------------------------------------- graph: link, link_many
\* history of a link or link_many call, as StoreOutcome
LinkOutcome(r, edges, failAt) ==
    IF r.ok THEN [ok |-> TRUE, why |-> "ok", ran |-> Len(edges), pre |-> db.edges]
    ELSE [ok |-> FALSE,
          why |-> IF inTx THEN "begin"
                  ELSE IF first_bad_edge(edges) # 0
                          /\ (failAt = 0 \/ first_bad_edge(edges) <= failAt)
                       THEN "metadata" ELSE "io",
          ran |-> IF inTx THEN 0
                  ELSE IF first_bad_edge(edges) # 0
                          /\ (failAt = 0 \/ first_bad_edge(edges) <= failAt)
                       THEN first_bad_edge(edges) - 1
                       ELSE Min(failAt - 1, Len(edges)),
          pre |-> db.edges]

\* the tuples of a batch that are not self-edges
Sent(edges) ==
    Cardinality({i \in 1..Len(edges) : edges[i].source_id # edges[i].target_id})

\* the tuples callers hand to link_many: a plain edge, one of negative
\* weight, one whose metadata json.dumps refuses, and a self-edge
EdgeInputs ==
    { [source_id |-> 1, target_id |-> 2, relation |-> "explicit-reference",
       weight |-> One, badMeta |-> FALSE],
      [source_id |-> 2, target_id |-> 1, relation |-> "semantic-similarity",
       weight |-> -One, badMeta |-> FALSE],
      [source_id |-> 2, target_id |-> 1, relation |-> "explicit-reference",
       weight |-> One, badMeta |-> TRUE],
      [source_id |-> 1, target_id |-> 1, relation |-> "semantic-similarity",
       weight |-> One, badMeta |-> FALSE] }

EdgeBatches == UNION {[1..n -> EdgeInputs] : n \in 0..MaxBatch}

link_many ==
    \E edges \in EdgeBatches : \E failAt \in 0..(Len(edges) + 1) :
        LET r == link_many_result(St, edges, failAt) IN
        /\ Len(db.edges) + Sent(edges) <= MaxEdges
        /\ SetState(r)
        /\ last' = [op |-> "link_many", sent |-> Sent(edges)] @@ LinkOutcome(r, edges, failAt)
        /\ UNCHANGED <<call, lastStored>>

link ==
    \E source_id \in ThoughtIds, target_id \in ThoughtIds,
       weight \in {One, -One}, badMeta \in BOOLEAN, bidirectional \in BOOLEAN :
      \E failAt \in 0..(IF bidirectional THEN 3 ELSE 2) :
        LET relation == "explicit-reference"
            edges == link_edges(source_id, target_id, relation, weight, badMeta,
                                bidirectional)
            r == link_result(St, source_id, target_id, relation, weight, badMeta,
                             bidirectional, failAt)
        IN /\ Len(db.edges) + Sent(edges) <= MaxEdges
           /\ SetState(r)
           /\ last' = [op |-> "link", sent |-> Sent(edges)] @@
                      (IF source_id = target_id
                       THEN [ok |-> TRUE, why |-> "self", ran |-> 0, pre |-> db.edges]
                       ELSE IF weight < 0
                       THEN [ok |-> FALSE, why |-> "validation", ran |-> 0, pre |-> db.edges]
                       ELSE LinkOutcome(r, edges, failAt))
           /\ UNCHANGED <<call, lastStored>>

\* ------------------------------------------------ get_session_lineage call
\* The walk takes the lock once per get_session_parent; each action below
\* runs to the next such read.
lineage_begin ==
    /\ call = Idle
    /\ \E session_id \in SessionIds, include_self \in BOOLEAN :
          call' = [op |-> "lineage", pc |-> "walk", session_id |-> session_id,
                   include_self |-> include_self,
                   known |-> session_id \in DOMAIN db.sessions,
                   w |-> lineage_start(db, session_id, include_self)]
    /\ UNCHANGED <<db, committed, inTx, index, vbackend, graph_backend, lastStored, last>>

lineage_step ==
    /\ call.op = "lineage" /\ call.pc = "walk"
    /\ call' = IF lineage_done(call.w) THEN [call EXCEPT !.pc = "done"]
               ELSE [call EXCEPT !.w = lineage_turn(db, call.w)]
    /\ UNCHANGED <<db, committed, inTx, index, vbackend, graph_backend, lastStored, last>>

\* the call in flight returns to its caller
call_return ==
    /\ call.op # "idle" /\ call.pc = "done"
    /\ call' = Idle
    /\ last' = [op |-> call.op, ok |-> IF call.op = "lineage" THEN TRUE ELSE call.ok]
    /\ UNCHANGED <<db, committed, inTx, index, vbackend, graph_backend, lastStored>>

\* ----------------------------------------------- recall_from_prior_sessions
QueryInputs == {<<1, 0>>}

\* the readings of the wall clock
Clock == {3}

recall ==
    \E session_id \in SessionIds, q \in QueryInputs, hasGraph \in BOOLEAN,
       limit \in {1, 2}, now \in Clock :
        /\ search_ok(index, q)
        /\ last' = [op |-> "recall", ok |-> TRUE, session_id |-> session_id,
                    hasGraph |-> hasGraph,
                    result |-> recall_from_prior_sessions(St, q, session_id, hasGraph,
                                                          limit, 18, 1, now)]
        /\ UNCHANGED <<db, committed, inTx, index, vbackend, graph_backend, call, lastStored>>

NextLineage == create_session \/ lineage_begin \/ lineage_step \/ call_return

SpecLineage == Init /\ [][NextLineage]_vars

NextRecall == create_session \/ store \/ recall

SpecRecall == Init /\ [][NextRecall]_vars

NextLink == create_session \/ link \/ link_many

SpecLink == Init /\ [][NextLink]_vars

\* ------------------------------------------------------- add_thought call
\* A call of add_thought or reflect in flight.  thought is the node being
\* added; prev the row _link_temporal_successor read; pending the semantic
\* neighbours still to link; linked the edges this call has committed.  For
\* reflect: todo the stored reflections whose node is still to add, stored
\* their ids, recalled the id of recalled[0] (None when nothing was
\* recalled), pending_edges the tuples collected for link_many.
GraphCall(op, pc, thought, semantic_neighbors, temporal_link) ==
    [op |-> op, pc |-> pc, thought |-> thought,
     semantic_neighbors |-> semantic_neighbors, temporal_link |-> temporal_link,
     prev |-> None, pending |-> << >>, linked |-> 0, ok |-> TRUE,
     todo |-> << >>, stored |-> {}, recalled |-> None, pending_edges |-> << >>,
     query |-> << >>, current_session_id |-> None, reflection_session_id |-> None,
     text |-> << >>, parsed |-> << >>, hasGraph |-> TRUE, now |-> 0]

raised(c) == [c EXCEPT !.pc = "done", !.ok = FALSE]

\* reflect, after batch_store and after each add_thought: the next stored
\* reflection, then link_many when there are pending edges
next_reflection(c) ==
    IF c.todo # << >>
    THEN [c EXCEPT !.pc = "node", !.thought = Head(c.todo), !.prev = None]
    ELSE IF c.pending_edges # << >> THEN [c EXCEPT !.pc = "linkmany"]
    ELSE [c EXCEPT !.pc = "done"]

\* add_thought returns; in reflect the explicit-reference tuple from
\* recalled[:1] is appended and the loop goes on
returned(c) ==
    IF c.op = "reflect"
    THEN next_reflection(
           [c EXCEPT !.todo = Tail(@),
                     !.pending_edges =
                        IF c.recalled = None THEN @
                        ELSE Append(@, [source_id |-> c.recalled,
                                        target_id |-> c.thought.id,
                                        relation |-> "explicit-reference",
                                        weight |-> One, badMeta |-> FALSE])])
    ELSE [c EXCEPT !.pc = "done"]

after_temporal(c) ==
    IF c.semantic_neighbors > 0 THEN [c EXCEPT !.pc = "search"] ELSE returned(c)

after_node(c) ==
    IF c.temporal_link THEN [c EXCEPT !.pc = "tsel"] ELSE after_temporal(c)

add_thought_begin ==
    /\ call = Idle
    /\ \E thought \in ThoughtInputs, store_if_missing \in BOOLEAN,
          semantic_neighbors \in {0, 3}, temporal_link \in BOOLEAN :
          call' = GraphCall("add_thought", IF store_if_missing THEN "get" ELSE "node",
                            thought, semantic_neighbors, temporal_link)
    /\ UNCHANGED <<db, committed, inTx, index, vbackend, graph_backend, lastStored, last>>

\* self._store.get_thought_by_id(thought.id) is None
add_thought_get ==
    /\ call.op = "add_thought" /\ call.pc = "get"
    /\ call' = IF get_thought_by_id(db, call.thought.id) = Absent
               THEN [call EXCEPT !.pc = "store"] ELSE [call EXCEPT !.pc = "node"]
    /\ UNCHANGED <<db, committed, inTx, index, vbackend, graph_backend, lastStored, last>>

\* self._store.store(thought)
add_thought_store ==
    /\ call.op = "add_thought" /\ call.pc = "store"
    /\ \E failAt \in 0..1 :
          LET r == batch_store_result(St, <<call.thought>>, failAt) IN
          /\ SetState(r)
          /\ lastStored' = IF r.ok THEN record_stored(lastStored, <<call.thought>>, 1)
                           ELSE lastStored
          /\ call' = IF r.ok THEN [call EXCEPT !.pc = "node"] ELSE raised(call)
    /\ UNCHANGED last

\* the node upsert and its commit
add_thought_node ==
    /\ call.op \in {"add_thought", "reflect"} /\ call.pc = "node"
    /\ SetState(upsert_node(St, call.thought))
    /\ call' = after_node(call)
    /\ UNCHANGED <<lastStored, last>>

\* the SELECT of _link_temporal_successor
add_thought_tsel ==
    /\ call.op \in {"add_thought", "reflect"} /\ call.pc = "tsel"
    /\ IF temporal_predecessors(db, call.thought) = {}
       THEN call' = after_temporal(call)
       ELSE \E row \in temporal_predecessors(db, call.thought) :
               call' = [call EXCEPT !.pc = "tlink", !.prev = row]
    /\ UNCHANGED <<db, committed, inTx, index, vbackend, graph_backend, lastStored, last>>

\* the link() of _link_temporal_successor
add_thought_tlink ==
    /\ call.op \in {"add_thought", "reflect"} /\ call.pc = "tlink"
    /\ Len(db.edges) < MaxEdges
    /\ \E failAt \in 0..1 :
          LET r == link_result(St, call.prev, call.thought.id, "temporal-successor",
                               One, FALSE, FALSE, failAt) IN
          /\ SetState(r)
          /\ call' = IF r.ok THEN after_temporal([call EXCEPT !.linked = @ + 1])
                     ELSE raised(call)
    /\ UNCHANGED <<lastStored, last>>

\* semantic_search(thought.embedding_vector, limit=semantic_neighbors + 5,
\* alpha=1.0) and the two `continue` tests of the loop over its results
RECURSIVE link_candidates(_, _)
link_candidates(nearest, thought) ==
    IF Len(nearest) = 0 THEN << >>
    ELSE (IF /\ Head(nearest).thought.id # thought.id
             /\ ~FracLess(Head(nearest).semantic_score, [num |-> 4, den |-> 5])
          THEN <<[id |-> Head(nearest).thought.id,
                  weight |-> Head(nearest).semantic_score.num]>>
          ELSE << >>)
         \o link_candidates(Tail(nearest), thought)

semantic_candidates(st, thought, semantic_neighbors, now) ==
    link_candidates(semantic_search(st, thought.embedding_vector, NoFilters,
                                    semantic_neighbors + 5, 20, now),
                    thought)

add_thought_search ==
    /\ call.op = "add_thought" /\ call.pc = "search"
    /\ \E now \in Clock :
          call' = IF ~search_ok(index, call.thought.embedding_vector) THEN raised(call)
                  ELSE LET found == semantic_candidates(St, call.thought,
                                                        call.semantic_neighbors, now)
                       IN IF found = << >> THEN returned(call)
                          ELSE [call EXCEPT !.pc = "slink", !.pending = found]
    /\ UNCHANGED <<db, committed, inTx, index, vbackend, graph_backend, lastStored, last>>

\* one self.link(other.id, thought.id, relation="semantic-similarity", ...)
add_thought_slink ==
    /\ call.op = "add_thought" /\ call.pc = "slink"
    /\ Len(db.edges) < MaxEdges
    /\ \E failAt \in 0..1 :
          LET other == Head(call.pending)
              r == link_result(St, other.id, call.thought.id, "semantic-similarity",
                               other.weight, FALSE, FALSE, failAt)
              rest == [call EXCEPT !.pending = Tail(@), !.linked = @ + 1]
          IN /\ SetState(r)
             /\ call' = IF ~r.ok THEN raised(call)
                        ELSE IF rest.pending = << >> THEN returned(rest) ELSE rest
    /\ UNCHANGED <<lastStored, last>>

NextGraph ==
    \/ add_thought_begin \/ add_thought_get \/ add_thought_store \/ add_thought_node
    \/ add_thought_tsel \/ add_thought_tlink \/ add_thought_search \/ add_thought_slink
    \/ call_return

SpecGraph == Init /\ [][NextGraph]_vars

\* ------------------------------------------------------------ reflect call
\* the ids of the <thought> tags parse_structured_thoughts returns
\* str.strip() on the contents modelled: "" and " " are blank
strip(content) == IF content = " " THEN "" ELSE content

\* the reflection text as the sequence of its well-formed <thought> tags,
\* each with its id attribute and its content: a text without a tag, one
\* whose only tag has blank content, and one with two tags
ReflectionTexts ==
    { << >>,
      <<[id |-> 3, content |-> " "]>>,
      <<[id |-> 3, content |-> "r"], [id |-> 4, content |-> "r"]>> }

parse_keeps_blank(text) == text

\* parse_structured_thoughts(text): one item per tag, in order, tags whose
\* stripped content is empty left out
RECURSIVE parse_structured_thoughts(_)
parse_structured_thoughts(text) ==
    IF Len(text) = 0 THEN << >>
    ELSE (IF strip(Head(text).content) = "" THEN << >>
          ELSE <<[id |-> Head(text).id, content |-> strip(Head(text).content)]>>)
         \o parse_structured_thoughts(Tail(text))

\* the ids of the items parsed from the texts modelled
ParsedInputs ==
    {[i \in 1..Len(parse_structured_thoughts(t)) |-> parse_structured_thoughts(t)[i].id] :
        t \in ReflectionTexts}

\* the embedder's vector for a reflection's content
ReflectVector == <<0, 1>>

reflect_begin ==
    /\ call = Idle
    /\ \E query \in QueryInputs, current_session_id \in SessionIds,
          reflection_session_id \in SessionIds \cup {None},
          text \in ReflectionTexts, hasGraph \in BOOLEAN, now \in Clock :
          call' = [GraphCall("reflect", "recall", Absent, 0, TRUE) EXCEPT
                      !.query = query, !.current_session_id = current_session_id,
                      !.reflection_session_id = reflection_session_id,
                      !.text = text, !.parsed = parse_structured_thoughts(text),
                      !.hasGraph = hasGraph, !.now = now]
    /\ UNCHANGED <<db, committed, inTx, index, vbackend, graph_backend, lastStored, last>>

\* top_k of the reflect calls modelled
top_k == 2

\* current_hits + prior_hits merged by id, cut to max(1, top_k): the id of
\* recalled[0], which is all the rest of reflect reads of the recall
first_recalled(st, query, current_session_id, hasGraph, now) ==
    LET current_hits == semantic_search(st, query, ThoughtFilters(current_session_id, None, None, {}),
                                        top_k, 19, now)
        prior_hits == recall_from_prior_sessions(st, query, current_session_id,
                                                 hasGraph, top_k, 19, 1, now)
        hits == current_hits \o prior_hits
    IN IF hits = << >> THEN None ELSE hits[1].thought.id

\* the two reads of reflect, taken against one state of the tables
reflect_recall ==
    /\ call.op = "reflect" /\ call.pc = "recall"
    /\ call' = IF ~search_ok(index, call.query) THEN raised(call)
               ELSE [call EXCEPT !.pc = "session",
                                 !.recalled = first_recalled(St, call.query,
                                                  call.current_session_id,
                                                  call.hasGraph, call.now)]
    /\ UNCHANGED <<db, committed, inTx, index, vbackend, graph_backend, lastStored, last>>

\* session_id = reflection_session_id or current_session_id
reflect_session_id(c) ==
    IF c.reflection_session_id # None THEN c.reflection_session_id
    ELSE c.current_session_id

\* the create_session call of reflect
reflect_session ==
    /\ call.op = "reflect" /\ call.pc = "session"
    /\ LET r == IF /\ call.reflection_session_id # None
                   /\ call.reflection_session_id # call.current_session_id
                THEN create_session_result(St, call.reflection_session_id,
                                           call.current_session_id, FALSE)
                ELSE create_session_result(St, call.current_session_id, None, FALSE)
       IN /\ SetState(r)
          /\ call' = IF call.parsed = << >> THEN [call EXCEPT !.pc = "done"]
                     ELSE [call EXCEPT !.pc = "rstore"]
    /\ UNCHANGED <<lastStored, last>>

\* to_store, one Thought per parsed item
to_store(c) ==
    [i \in 1..Len(c.parsed) |->
        Thought(c.parsed[i].id, [t |-> c.now, aware |-> TRUE], reflect_session_id(c),
                ReflectVector, {"reflection"}, c.parsed[i].content)]

\* stored = self.store.batch_store(to_store)
reflect_store ==
    /\ call.op = "reflect" /\ call.pc = "rstore"
    /\ \E failAt \in 0..1 :
          LET r == batch_store_result(St, to_store(call), failAt) IN
          /\ SetState(r)
          /\ lastStored' = IF r.ok
                           THEN record_stored(lastStored, to_store(call), Len(call.parsed))
                           ELSE lastStored
          /\ call' = IF ~r.ok THEN raised(call)
                     ELSE IF call.hasGraph
                     THEN next_reflection([call EXCEPT !.stored = RowIds(to_store(call)),
                                                       !.todo = to_store(call)])
                     ELSE [call EXCEPT !.stored = RowIds(to_store(call)), !.pc = "done"]
    /\ UNCHANGED last

\* self.graph.link_many(pending_edges)
reflect_link_many ==
    /\ call.op = "reflect" /\ call.pc = "linkmany"
    /\ Len(db.edges) + Sent(call.pending_edges) <= MaxEdges
    /\ \E failAt \in 0..1 :
          LET r == link_many_result(St, call.pending_edges, failAt) IN
          /\ SetState(r)
          /\ call' = IF r.ok THEN [call EXCEPT !.pc = "done"] ELSE raised(call)
    /\ UNCHANGED <<lastStored, last>>

NextReflect ==
    \/ reflect_begin \/ reflect_recall \/ reflect_session \/ reflect_store
    \/ add_thought_node \/ add_thought_tsel \/ add_thought_tlink
    \/ reflect_link_many \/ call_return

SpecReflect == Init /\ [][NextReflect]_vars

\* ----------------------------------------------------- claims on sessions
\* the sessions reached from s by one or more parent links
RECURSIVE ParentChain(_, _, _)
ParentChain(tables, s, seen) ==
    LET p == get_session_parent(tables, s)
    IN IF p = None \/ p \in seen THEN seen
       ELSE ParentChain(tables, p, seen \cup {p})

\* the strict ancestors of s: parent, grandparent and so on, s excluded
StrictAncestors(tables, s) == ParentChain(tables, s, {}) \ {s}

\* C3: every thought recall_from_prior_sessions(current_session_id = s)
\* returns belongs to a strict ancestor session of s and never to s itself,
\* also when the parent links make s its own parent or run in a cycle; with
\* no parent, or s unknown, the result is empty.
RecallOnlyStrictAncestors ==
    last.op = "recall" =>
        \A i \in 1..Len(last.result) :
            last.result[i].thought.session_id
                \in StrictAncestors(db, last.session_id)

\* C6: the lineage walk never lists a session id twice and so makes at
\* most one turn per session id; with include_self the list starts at the
\* session asked for; for a session that was unknown when the walk began
\* and include_self = false the walk is over at once with the empty list.
LineageWalkSound ==
    call.op = "lineage" =>
        LET l == call.w.lineage IN
        /\ \A i, j \in 1..Len(l) : i # j => l[i] # l[j]
        /\ Range(l) = call.w.visited
        /\ Len(l) <= Cardinality(SessionIds)
        /\ (call.include_self /\ l # << >> => l[1] = call.session_id)
        /\ (~call.include_self /\ ~call.known => l = << >> /\ lineage_done(call.w))

\* a walk that went round a cycle of two sessions and stopped on it
LineageCycleWalked ==
    /\ call.op = "lineage" /\ call.pc = "done"
    /\ Len(call.w.lineage) = 2
    /\ call.w.current \in call.w.visited

\* ------------------------------------------------------- claims on edges
\* C4: every row of the edge table has source_id # target_id and
\* weight >= 0, whichever of link, link_many, add_thought or reflect wrote it.
EdgesWellFormed ==
    \A i \in 1..Len(db.edges) :
        db.edges[i].source_id # db.edges[i].target_id /\ db.edges[i].weight >= 0

\* C8: link_many, and so link, writes its edges in one transaction: a call
\* that fails leaves the edge table, as read and as committed, as it was
\* before the call; a call that succeeds has appended and committed every
\* tuple that is not a self-edge, so both directions of a bidirectional link.
LinkManyAllOrNothing ==
    last.op \in {"link", "link_many"} =>
        /\ committed.edges = db.edges
        /\ IF last.ok /\ last.why = "ok"
           THEN /\ Len(db.edges) = Len(last.pre) + last.sent
                /\ SubSeq(db.edges, 1, Len(last.pre)) = last.pre
           ELSE db.edges = last.pre

\* a link or link_many call failed after one INSERT of its transaction
LinkFailedPartWay ==
    /\ last.op \in {"link", "link_many"}
    /\ ~last.ok /\ last.ran >= 1 /\ last.sent >= 2

\* C10: the edges one add_thought call writes commit together: no state
\* shows an edge of the call committed while another is still to be
\* written, and a call that fails leaves none of its edges behind.
AddThoughtEdgesAtomic ==
    call.op = "add_thought" /\ call.linked > 0 =>
        /\ call.pc # "slink"
        /\ ~(call.pc = "done" /\ ~call.ok)

\* C9: the rows of one reflect call (its thoughts, their nodes and their
\* explicit-reference edges) are persisted all or none: once the
\* reflections of a call with a graph are stored, their nodes and edges
\* are there too, and a call that fails has stored nothing.
ReflectRowsAllOrNothing ==
    call.op = "reflect" /\ call.hasGraph /\ call.stored # {} =>
        /\ call.ok
        /\ \A id \in call.stored :
              /\ id \in DOMAIN db.nodes
              /\ call.recalled # None /\ call.recalled # id =>
                    \E i \in 1..Len(db.edges) :
                        /\ db.edges[i].source_id = call.recalled
                        /\ db.edges[i].target_id = id
                        /\ db.edges[i].relation = "explicit-reference"

\* ------------------------------------------------------ claims on reflect
\* the text has a well-formed tag whose content is not blank
HasTag(text) == \E i \in 1..Len(text) : strip(text[i].content) # ""

\* C11: a reflect call whose text has a tag with non-empty content stores
\* at least one thought unless batch_store itself raises, and the stored
\* ids are persisted; a call whose text has no such tag never reaches
\* batch_store, never raises, reports no stored reflection and leaves the
\* thoughts table untouched.
ReflectStoresParsed ==
    /\ [](call.op = "reflect" =>
            IF HasTag(call.text)
            THEN /\ call.pc = "done" /\ call.ok => call.stored # {}
                 /\ call.pc \in {"node", "tsel", "tlink", "linkmany"} => call.stored # {}
                 /\ call.stored \subseteq RowIds(db.thoughts)
            ELSE /\ call.pc \in {"recall", "session", "done"}
                 /\ call.ok /\ call.stored = {})
    /\ [][call.op = "reflect" /\ ~HasTag(call.text) => db.thoughts' = db.thoughts]_vars

\* a reflect call returned having stored the two reflections of its text
ReflectStoredTwo ==
    /\ call.op = "reflect" /\ call.pc = "done" /\ call.ok
    /\ Cardinality(call.stored) = 2
    /\ call.stored \subseteq RowIds(db.thoughts)

\* --------------------------------------------------- create_session, logged
\* create_session with the call's arguments and the sessions table read
\* before it kept in the history
create_session_logged ==
    \E sid \in SessionIds, parent \in SessionIds \cup {None}, badMeta \in BOOLEAN :
        LET r == create_session_result(St, sid, parent, badMeta) IN
        /\ SetState(r)
        /\ last' = [op |-> "create_session", ok |-> r.ok, session_id |-> sid,
                    parent_session_id |-> parent, pre |-> db.sessions]
        /\ UNCHANGED <<call, lastStored>>

NextSessions == create_session_logged \/ lineage_begin \/ lineage_step \/ call_return

SpecSessions == Init /\ [][NextSessions]_vars

\* C12: create_session never downgrades a parent: a call without a parent
\* on a session that has parent p leaves that parent p; a parent named in
\* the call that had no row gets one with a null parent, and a parent that
\* had a row keeps the parent link it had.
CreateSessionKeepsParent ==
    last.op = "create_session" /\ last.ok =>
        LET s == last.session_id
            p == last.parent_session_id
        IN /\ (p = None /\ s \in DOMAIN last.pre /\ last.pre[s] # None
                  => db.sessions[s] = last.pre[s])
           /\ (p # None /\ p # s
                  => /\ p \in DOMAIN db.sessions
                     /\ db.sessions[p] = IF p \in DOMAIN last.pre THEN last.pre[p]
                                          ELSE None)

\* C13: every row of the node table carries the id of a persisted thought,
\* whatever add_thought (store_if_missing true or false) and store calls
\* came before.
NodesReferenceThoughts == DOMAIN db.nodes \subseteq RowIds(db.thoughts)

\* ------------------------------------------------------- the shared mutex
\* Threads calling into one store and its graphs.  Every place of store.py
\* and graph.py that runs a statement on the shared connection or touches
\* the vector index or the graph projection is listed with whether it sits
\* inside `with self._lock`.
Threads == {1, 2}

\* ThoughtStore: every access is inside `with self._lock`
StoreLockedOps ==
    {"close", "create_session", "get_session_parent", "batch_store", "retrieve",
     "semantic_search", "get_thought_by_id"}

\* ThoughtGraph: the accesses inside `with self._lock`
GraphLockedOps ==
    {"graph._init_schema", "add_thought", "_link_temporal_successor", "link_many",
     "neighbors", "find_paths", "cluster_by_topic", "temporal_range"}

\* ThoughtGraph.__init__ calls _rebuild_backend_locked, which reads both
\* graph tables and replaces the projection, without taking the lock
GraphUnlockedOps == {"graph.__init__._rebuild_backend_locked"}

NoThreads == [op |-> "threads", owner |-> None,
              at |-> [t \in Threads |-> [name |-> "", pc |-> "out"]]]

ThreadsNow == IF call.op = "threads" THEN call ELSE NoThreads

\* a thread enters one of the operations: it waits for the lock where the
\* code takes it, and goes straight to the access where it does not
thread_call(t) ==
    /\ call.op \in {"idle", "threads"}
    /\ ThreadsNow.at[t].pc = "out"
    /\ \E name \in StoreLockedOps \cup GraphLockedOps \cup GraphUnlockedOps :
          call' = [ThreadsNow EXCEPT !.at[t] =
                      [name |-> name,
                       pc |-> IF name \in GraphUnlockedOps THEN "in" ELSE "wait"]]
    /\ UNCHANGED <<db, committed, inTx, index, vbackend, graph_backend, lastStored, last>>

\* threading.RLock.acquire by a thread that does not hold it
thread_acquire(t) ==
    /\ call.op = "threads" /\ call.at[t].pc = "wait"
    /\ call.owner = None
    /\ call' = [call EXCEPT !.owner = t, !.at[t].pc = "in"]
    /\ UNCHANGED <<db, committed, inTx, index, vbackend, graph_backend, lastStored, last>>

\* the thread is inside a statement on the connection or an update of the
\* index or the projection
thread_access(t) ==
    /\ call.op = "threads" /\ call.at[t].pc = "in"
    /\ call' = [call EXCEPT !.at[t].pc = "busy"]
    /\ UNCHANGED <<db, committed, inTx, index, vbackend, graph_backend, lastStored, last>>

\* the access is over; leaving the `with` block releases the lock
thread_leave(t) ==
    /\ call.op = "threads" /\ call.at[t].pc = "busy"
    /\ call' = [call EXCEPT !.at[t] = [name |-> "", pc |-> "out"],
                            !.owner = IF call.owner = t THEN None ELSE @]
    /\ UNCHANGED <<db, committed, inTx, index, vbackend, graph_backend, lastStored, last>>

NextThreads ==
    \E t \in Threads :
        thread_call(t) \/ thread_acquire(t) \/ thread_access(t) \/ thread_leave(t)

SpecThreads == Init /\ [][NextThreads]_vars

\* C14: at most one thread at a time is inside an access to the shared
\* connection, the vector index or the graph projection, and the thread
\* that is holds the mutex.
OneThreadInside ==
    call.op = "threads" =>
        /\ Cardinality({t \in Threads : call.at[t].pc = "busy"}) <= 1
        /\ \A t \in Threads : call.at[t].pc = "busy" => call.owner = t

\* ----------------------------------------------------------------- retrieve
\* the WHERE clauses _query_rows_locked builds: session and time range
sql_where(row, filters) ==
    /\ filters.session_id = None \/ row.session_id = filters.session_id
    /\ filters.start_time_utc = None \/ row.timestamp_utc >= filters.start_time_utc
    /\ filters.end_time_utc = None \/ row.timestamp_utc <= filters.end_time_utc

\* rows = [row for row in rows if tags_filter.intersection(tags of row)]
RECURSIVE tags_any_rows(_, _)
tags_any_rows(rows, tags_any) ==
    IF Len(rows) = 0 THEN << >>
    ELSE (IF Head(rows).tags \cap tags_any # {} THEN <<Head(rows)>> ELSE << >>)
         \o tags_any_rows(Tail(rows), tags_any)

\* _query_rows_locked(filters=, limit=): SELECT ... WHERE ... ORDER BY
\* timestamp_utc DESC LIMIT max(1, limit), then the tags_any filter on the
\* rows fetched.  The result is a set: SQLite may order rows of equal
\* timestamp either way.
_query_rows_locked(rows, filters, limit) ==
    LET hit == {i \in 1..Len(rows) : sql_where(rows[i], filters)}
        n == Min(Max(1, limit), Cardinality(hit))
        fetched == {p \in [1..n -> hit] :
                      /\ \A a, b \in 1..n : a < b =>
                            p[a] # p[b] /\ rows[p[a]].timestamp_utc >= rows[p[b]].timestamp_utc
                      /\ \A j \in hit \ Range(p) : \A a \in 1..n :
                            rows[p[a]].timestamp_utc >= rows[j].timestamp_utc}
    IN {IF filters.tags_any = {} THEN [k \in 1..n |-> rows[p[k]]]
        ELSE tags_any_rows([k \in 1..n |-> rows[p[k]]], filters.tags_any) :
           p \in fetched}

\* the filters callers pass to retrieve and semantic_search
FilterInputs ==
    { NoFilters,
      ThoughtFilters(1, None, None, {}),
      ThoughtFilters(None, 2, None, {}),
      ThoughtFilters(None, None, 1, {}),
      ThoughtFilters(None, None, None, {"x"}),
      ThoughtFilters(1, 1, 2, {"x"}) }

\* retrieve(filters=, limit=)
retrieve ==
    \E filters \in FilterInputs, limit \in 1..MaxBatch :
      \E rows \in _query_rows_locked(db.thoughts, filters, limit) :
        /\ last' = [op |-> "retrieve", ok |-> TRUE, filters |-> filters, limit |-> limit,
                    result |-> [i \in 1..Len(rows) |-> _row_to_thought(rows[i])]]
        /\ UNCHANGED <<db, committed, inTx, index, vbackend, graph_backend, call, lastStored>>

NextRetrieve == store \/ retrieve

SpecRetrieve == Init /\ [][NextRetrieve]_vars

\* C15: retrieve returns, newest first, the min(limit, m) most recent of
\* the m persisted thoughts that satisfy every filter given, tags_any
\* included.
RetrieveNewestMatching ==
    last.op = "retrieve" =>
        LET rows == db.thoughts
            res == last.result
            m == {i \in 1..Len(rows) : _row_matches_filters(rows[i], last.filters)}
            got == {res[k].id : k \in 1..Len(res)}
        IN /\ Len(res) = Min(last.limit, Cardinality(m))
           /\ Cardinality(got) = Len(res)
           /\ got \subseteq {rows[i].id : i \in m}
           /\ \A a, b \in 1..Len(res) :
                 a < b => _dt_to_iso(res[a].timestamp_utc) >= _dt_to_iso(res[b].timestamp_utc)
           /\ \A i \in m : rows[i].id \notin got =>
                 \A k \in 1..Len(res) :
                    _dt_to_iso(res[k].timestamp_utc) >= rows[i].timestamp_utc

\* ---------------------------------------------------------- semantic_search
\* a thought whose embedding is orthogonal to that of the first input
OrthogonalInputs == { Thought(2, [t |-> 1, aware |-> TRUE], 1, <<0, 1>>, {"x"}, "e") }

store_orthogonal == \E thought \in OrthogonalInputs : StoreCall("store", <<thought>>, 0)

SearchQueries == { <<1, 0>>, <<0, 1>>, <<1, 0, 0>> }

\* alpha = 1.0, 0.9 and 0.0, in 20ths
AlphaInputs == { 20, 18, 0 }

\* semantic_search(query_vector, filters=, limit=, alpha=): raises when the
\* query has another dimension than the index, else returns the ranked list
semantic_search_call ==
    \E query_vector \in SearchQueries, filters \in FilterInputs, limit \in 1..MaxBatch,
       alpha20 \in AlphaInputs, now \in Clock :
        /\ last' = IF search_ok(index, query_vector)
                   THEN [op |-> "semantic_search", ok |-> TRUE, query |-> query_vector,
                         filters |-> filters, limit |-> limit, alpha20 |-> alpha20,
                         result |-> semantic_search(St, query_vector, filters, limit,
                                                    alpha20, now)]
                   ELSE [op |-> "semantic_search", ok |-> FALSE, query |-> query_vector,
                         filters |-> filters, limit |-> limit, alpha20 |-> alpha20,
                         result |-> << >>]
        /\ UNCHANGED <<db, committed, inTx, index, vbackend, graph_backend, call, lastStored>>

NextSearch == store \/ store_orthogonal \/ semantic_search_call

SpecSearch == Init /\ [][NextSearch]_vars

\* the persisted row of a returned thought
StoredRow(id) == db.thoughts[RowPos(db.thoughts, id)]

\* C16: the scores of a semantic_search result never increase along the
\* list, every returned thought satisfies all the filters given, and with
\* alpha = 1 a thought whose vector equals the query comes strictly before
\* one whose vector is orthogonal to it.
SearchRankedAndFiltered ==
    (last.op = "semantic_search" /\ last.ok) =>
        LET res == last.result IN
        /\ \A k \in 1..(Len(res) - 1) : ~FracLess(res[k].score, res[k + 1].score)
        /\ \A k \in 1..Len(res) :
              /\ res[k].thought.id \in RowIds(db.thoughts)
              /\ _row_matches_filters(StoredRow(res[k].thought.id), last.filters)
        /\ last.alpha20 = 20 =>
              \A i, j \in 1..Len(res) :
                 (/\ res[i].thought.embedding_vector = last.query
                  /\ Dot(res[j].thought.embedding_vector, last.query) = 0)
                 => /\ i < j
                    /\ FracLess(res[j].score, res[i].score)

\* a filtered search with alpha = 1 returned the thought equal to the
\* query and the one orthogonal to it
SearchRankedTwo ==
    /\ last.op = "semantic_search" /\ last.ok
    /\ last.alpha20 = 20
    /\ last.filters.tags_any = {"x"}
    /\ Len(last.result) = 2
    /\ last.result[1].thought.id = 2
    /\ last.result[1].thought.embedding_vector = last.query
    /\ Dot(last.result[2].thought.embedding_vector, last.query) = 0

\* -------------------------------------------------------------- core parsers
\* A text is a sequence of tokens: "M" is the nine characters of the marker
\* "/thought[", the others are one character each ("a" any character that
\* is neither a bracket nor whitespace).  The marker begins with the only
\* "/" of a text, so no marker overlaps another or starts inside one.
MaxText == 6

Tokens == { "M", "[", "]", " ", "\n", "a" }

Texts == UNION { [1..n -> Tokens] : n \in 0..MaxText }

marker_len == 9

\* len(text) in characters
RECURSIVE len(_)
len(text) ==
    IF Len(text) = 0 THEN 0
    ELSE (IF Head(text) = "M" THEN marker_len ELSE 1) + len(Tail(text))

\* \s, and what str.strip() removes
IsSpace(c) == c \in { " ", "\n" }

\* text.find(tok, i): the least position >= i holding tok, 0 when none
find(text, tok, i) ==
    LET at == {k \in i..Len(text) : text[k] = tok}
    IN IF at = {} THEN 0 ELSE CHOOSE k \in at : \A j \in at : k <= j

\* str.strip()
str_strip(text) ==
    LET ink == {k \in 1..Len(text) : ~IsSpace(text[k])}
    IN IF ink = {} THEN << >>
       ELSE SubSeq(text, CHOOSE k \in ink : \A j \in ink : k <= j,
                         CHOOSE k \in ink : \A j \in ink : k >= j)

\* the characters of text at the positions of keep, in order
RECURSIVE Pick(_, _, _)
Pick(text, keep, i) ==
    IF i > Len(text) THEN << >>
    ELSE (IF i \in keep THEN <<text[i]>> ELSE << >>) \o Pick(text, keep, i + 1)

\* re.findall(r"/thought\[(.*?)\]", text, re.DOTALL) from position i: the
\* lazy group ends at the first "]" after the marker; start and end bound
\* the match, end exclusive
RECURSIVE findall(_, _)
findall(text, i) ==
    LET start == find(text, "M", i)
        close == IF start = 0 THEN 0 ELSE find(text, "]", start + 1)
    IN IF close = 0 THEN << >>
       ELSE <<[start |-> start, end |-> close + 1,
               content |-> SubSeq(text, start + 1, close - 1)]>>
            \o findall(text, close + 1)

\* parse_thought_tags(text): the dict {"thought_<idx>": content} as the
\* sequence of its contents, key thought_<idx> at position idx + 1
parse_thought_tags(text) ==
    LET matches == findall(text, 1)
    IN [k \in 1..Len(matches) |-> str_strip(matches[k].content)]

\* re.sub(r"\s*/thought\[.*?\]\s*", "\n", text, count=1) from position i
sub_tags_once(text, i) ==
    LET start == find(text, "M", i)
        close == IF start = 0 THEN 0 ELSE find(text, "]", start + 1)
    IN IF close = 0 THEN SubSeq(text, i, Len(text))
       ELSE LET from == CHOOSE s \in i..start :
                           /\ \A k \in s..(start - 1) : IsSpace(text[k])
                           /\ s > i => ~IsSpace(text[s - 1])
                to == CHOOSE e \in (close + 1)..(Len(text) + 1) :
                           /\ \A k \in (close + 1)..(e - 1) : IsSpace(text[k])
                           /\ e <= Len(text) => ~IsSpace(text[e])
            IN SubSeq(text, i, from - 1) \o <<"\n">> \o SubSeq(text, to, Len(text))

\* re.sub(r"\s*/thought\[.*?\]\s*", "\n", text, flags=re.DOTALL) from
\* position i: the leftmost match starts at the whitespace run before the
\* first marker that a "]" follows and ends after the whitespace run
\* behind that "]"
RECURSIVE sub_tags(_, _)
sub_tags(text, i) ==
    LET start == find(text, "M", i)
        close == IF start = 0 THEN 0 ELSE find(text, "]", start + 1)
    IN IF close = 0 THEN SubSeq(text, i, Len(text))
       ELSE LET from == CHOOSE s \in i..start :
                           /\ \A k \in s..(start - 1) : IsSpace(text[k])
                           /\ s > i => ~IsSpace(text[s - 1])
                to == CHOOSE e \in (close + 1)..(Len(text) + 1) :
                           /\ \A k \in (close + 1)..(e - 1) : IsSpace(text[k])
                           /\ e <= Len(text) => ~IsSpace(text[e])
            IN SubSeq(text, i, from - 1) \o <<"\n">> \o sub_tags(text, to)

\* re.sub(r"[ \t]+\n", "\n", text): a blank goes when the first non-blank
\* after it is a newline
sub_space_before_newline(text) ==
    Pick(text, {i \in 1..Len(text) :
                  ~(/\ text[i] = " "
                    /\ \E j \in (i + 1)..Len(text) :
                          /\ text[j] = "\n"
                          /\ \A k \in (i + 1)..(j - 1) : text[k] = " ")}, 1)

\* re.sub(r"\n[ \t]+", "\n", text): a blank goes when the last non-blank
\* before it is a newline
sub_space_after_newline(text) ==
    Pick(text, {i \in 1..Len(text) :
                  ~(/\ text[i] = " "
                    /\ \E j \in 1..(i - 1) :
                          /\ text[j] = "\n"
                          /\ \A k \in (j + 1)..(i - 1) : text[k] = " ")}, 1)

\* re.sub(r"\n{3,}", "\n\n", text): the first two newlines of a run stay
sub_newlines(text) ==
    Pick(text, {i \in 1..Len(text) :
                  ~(i >= 3 /\ text[i] = "\n" /\ text[i - 1] = "\n" /\ text[i - 2] = "\n")}, 1)

\* clean_thought_tags(text)
clean_thought_tags(text) ==
    str_strip(sub_newlines(sub_space_after_newline(sub_space_before_newline(
        sub_tags(text, 1)))))

\* the inner while loop of _iter_tag_matches_linear: the position of the
\* "]" that brings depth to 0, 0 when the text ends first.  The marker
\* ends in "[", so a marker inside the content opens a bracket.
RECURSIVE closing_bracket(_, _, _)
closing_bracket(text, cursor, depth) ==
    IF cursor > Len(text) THEN 0
    ELSE IF text[cursor] \in { "[", "M" } THEN closing_bracket(text, cursor + 1, depth + 1)
    ELSE IF text[cursor] = "]"
         THEN IF depth = 1 THEN cursor ELSE closing_bracket(text, cursor + 1, depth - 1)
    ELSE closing_bracket(text, cursor + 1, depth)

\* _iter_tag_matches_linear(text, tag_name) from scan_idx; an unclosed tag
\* is skipped by scanning on behind its slash
RECURSIVE _iter_tag_matches_linear(_, _)
_iter_tag_matches_linear(text, scan_idx) ==
    LET start == find(text, "M", scan_idx)
        close == IF start = 0 THEN 0 ELSE closing_bracket(text, start + 1, 1)
    IN IF start = 0 THEN << >>
       ELSE IF close = 0 THEN _iter_tag_matches_linear(text, start + 1)
       ELSE <<[start |-> start, end |-> close + 1,
               content |-> SubSeq(text, start + 1, close - 1)]>>
            \o _iter_tag_matches_linear(text, close + 1)

\* parse_thought_tags_linear(text)
parse_thought_tags_linear(text) ==
    LET matches == _iter_tag_matches_linear(text, 1)
    IN [k \in 1..Len(matches) |-> str_strip(matches[k].content)]

\* the out_parts of clean_thought_tags_linear, joined
RECURSIVE out_parts(_, _, _)
out_parts(text, matches, cursor) ==
    IF Len(matches) = 0 THEN SubSeq(text, cursor, Len(text))
    ELSE SubSeq(text, cursor, Head(matches).start - 1) \o <<"\n">>
         \o out_parts(text, Tail(matches), Head(matches).end)

\* clean_thought_tags_linear(text)
clean_thought_tags_linear(text) ==
    LET matches == _iter_tag_matches_linear(text, 1)
    IN IF Len(matches) = 0 THEN str_strip(sub_newlines(text))
       ELSE str_strip(sub_newlines(sub_space_after_newline(sub_space_before_newline(
                out_parts(text, matches, 1)))))

\* the parsers and cleaners applied to one text
InitCore ==
    /\ db = EmptyTables
    /\ committed = EmptyTables
    /\ inTx = FALSE
    /\ index = << >>
    /\ vbackend = "numpy"
    /\ graph_backend = NoBackend
    /\ call \in {[op |-> "core", text |-> text] : text \in Texts}
    /\ lastStored = << >>
    /\ last = [op |-> "init", ok |-> TRUE]

CoreCall(op, result) ==
    /\ call.op = "core"
    /\ last' = [op |-> op, ok |-> TRUE, text |-> call.text, result |-> result]
    /\ UNCHANGED <<db, committed, inTx, index, vbackend, graph_backend, call, lastStored>>

parse_regex == CoreCall("parse_thought_tags", parse_thought_tags(call.text))

parse_linear == CoreCall("parse_thought_tags_linear", parse_thought_tags_linear(call.text))

clean_regex == CoreCall("clean_thought_tags", clean_thought_tags(call.text))

clean_linear == CoreCall("clean_thought_tags_linear", clean_thought_tags_linear(call.text))

NextCore == parse_regex \/ parse_linear \/ clean_regex \/ clean_linear

SpecCore == InitCore /\ [][NextCore]_vars

\* no marker of the text lacks its balancing "]"
NoUnclosedTags(text) ==
    \A p \in 1..Len(text) : text[p] = "M" => closing_bracket(text, p + 1, 1) # 0

\* C17: for a text with no unclosed tag, every key of the regex parser's
\* result is a key of the linear parser's result.
RegexKeysSubsetLinear ==
    (last.op = "parse_thought_tags" /\ NoUnclosedTags(last.text)) =>
        DOMAIN last.result \subseteq DOMAIN parse_thought_tags_linear(last.text)

\* C18: with either variant, cleaning a cleaned text changes nothing and
\* parsing a cleaned text yields the empty mapping.
CleanIdempotent ==
    /\ last.op = "clean_thought_tags" =>
          /\ clean_thought_tags(last.result) = last.result
          /\ parse_thought_tags(last.result) = << >>
    /\ last.op = "clean_thought_tags_linear" =>
          /\ clean_thought_tags_linear(last.result) = last.result
          /\ parse_thought_tags_linear(last.result) = << >>

\* a text with two tags and blanks around them was cleaned to text that
\* still holds a marker
CleanedTwoTags ==
    /\ last.op = "clean_thought_tags"
    /\ Len(parse_thought_tags(last.text)) = 2
    /\ \E k \in 1..Len(last.text) : IsSpace(last.text[k])
    /\ \E k \in 1..Len(last.result) : last.result[k] = "M"

\* ---------------------------------------------------------- parse_and_store
MaxStored == 3

\* the raw outputs handed to the pipeline: no tag, one tag, two tags, a
\* tag with nested brackets, a tag nested in a bracketed tag, a tag in a
\* tag, an empty tag, an unclosed tag
RawOutputs ==
    { <<"a">>,
      <<"M", "a", "]">>,
      <<"M", "a", "]", " ", "M", "a", "]">>,
      <<"M", "[", "a", "]", "]">>,
      <<"M", "[", "]", "M", "]", "]">>,
      <<"M", "M", "]">>,
      <<"M", " ", "]">>,
      <<"M", "a">> }

\* the embedder the caller passes, of the store's dimension
embed(text) == <<1, 0>>

\* should_use_linear of parse_and_store
should_use_linear(regex_thoughts, linear_thoughts) ==
    \/ Len(linear_thoughts) > Len(regex_thoughts)
    \/ \E key \in DOMAIN linear_thoughts :
          len(linear_thoughts[key]) >
             len(IF key \in DOMAIN regex_thoughts THEN regex_thoughts[key] ELSE << >>)

\* the first half of parse_and_store: thoughts_map, cleaned_output and
\* used_linear_fallback
parse_and_clean_chosen(raw_output, linear_fallback) ==
    LET regex_thoughts == parse_thought_tags(raw_output)
        linear_thoughts == parse_thought_tags_linear(raw_output)
    IN IF linear_fallback /\ should_use_linear(regex_thoughts, linear_thoughts)
       THEN [thoughts_map |-> linear_thoughts,
             cleaned_output |-> clean_thought_tags_linear(raw_output),
             used_linear_fallback |-> TRUE]
       ELSE [thoughts_map |-> regex_thoughts,
             cleaned_output |-> clean_thought_tags(raw_output),
             used_linear_fallback |-> FALSE]

\* Thought(raw_text=content, cleaned_text=content.strip(), ...): both fields
\* have min_length = 1, so an empty content raises ValidationError
thought_valid(content) == Len(str_strip(content)) >= 1

\* parse_and_store(raw_output, store, session_id=, linear_fallback=,
\* embedder=): the thought objects get fresh ids (uuid4) and the time of the
\* call; a content the Thought model rejects raises before batch_store
parse_and_store ==
    \E raw_output \in RawOutputs, linear_fallback \in BOOLEAN, now \in Clock :
        LET chosen == parse_and_clean_chosen(raw_output, linear_fallback)
            thoughts_map == chosen.thoughts_map
            valid == \A k \in DOMAIN thoughts_map : thought_valid(thoughts_map[k])
            thought_objects == [k \in DOMAIN thoughts_map |->
                Thought(Len(db.thoughts) + k, [t |-> now, aware |-> TRUE], 1,
                        embed(str_strip(thoughts_map[k])), {}, thoughts_map[k])]
            r == IF valid THEN batch_store_result(St, thought_objects, 0)
                 ELSE [St EXCEPT !.ok = FALSE]
        IN /\ Len(db.thoughts) + Len(thoughts_map) <= MaxStored
           /\ SetState(r)
           /\ last' = [op |-> "parse_and_store", ok |-> r.ok, raw_output |-> raw_output,
                       linear_fallback |-> linear_fallback,
                       cleaned_output |-> IF r.ok THEN chosen.cleaned_output ELSE << >>,
                       used_linear_fallback |-> r.ok /\ chosen.used_linear_fallback,
                       thoughts |-> IF r.ok THEN thought_objects ELSE << >>,
                       pre |-> db.thoughts]
           /\ UNCHANGED <<call, lastStored>>

NextPipeline == parse_and_store

SpecPipeline == Init /\ [][NextPipeline]_vars

\* C19: with linear_fallback enabled parse_and_store returns the linear
\* parser's fragments and cleaned text with used_linear_fallback set exactly
\* when the linear parser has more fragments than the regex parser or a
\* longer content under some common key, else the regex result with the
\* flag clear, and it persists one thought per fragment of the result it
\* chose.
ParseAndStoreChoosesAndPersists ==
    (last.op = "parse_and_store" /\ last.linear_fallback) =>
        LET regex_thoughts == parse_thought_tags(last.raw_output)
            linear_thoughts == parse_thought_tags_linear(last.raw_output)
            use_linear ==
                \/ Len(linear_thoughts) > Len(regex_thoughts)
                \/ \E key \in DOMAIN linear_thoughts \cap DOMAIN regex_thoughts :
                      len(linear_thoughts[key]) > len(regex_thoughts[key])
            fragments == IF use_linear THEN linear_thoughts ELSE regex_thoughts
            n == Len(fragments)
        IN /\ last.ok
           /\ last.used_linear_fallback = use_linear
           /\ last.cleaned_output = IF use_linear
                                    THEN clean_thought_tags_linear(last.raw_output)
                                    ELSE clean_thought_tags(last.raw_output)
           /\ Len(last.thoughts) = n
           /\ Len(db.thoughts) = Len(last.pre) + n
           /\ SubSeq(db.thoughts, 1, Len(last.pre)) = last.pre
           /\ \A k \in 1..n :
                 /\ last.thoughts[k].text = fragments[k]
                 /\ db.thoughts[Len(last.pre) + k].text = fragments[k]

\* ------------------------------------------------- recall with graph expansion
\* recall_from_prior_sessions(query_vector, current_session_id=, graph=,
\* limit=, alpha=) with a graph and the default graph_hops = 1
recall_expanded ==
    \E session_id \in SessionIds, q \in QueryInputs, limit \in 1..MaxBatch,
       alpha20 \in {18, 20}, now \in Clock :
        /\ search_ok(index, q)
        /\ last' = [op |-> "recall_expanded", ok |-> TRUE, session_id |-> session_id,
                    query |-> q, limit |-> limit, alpha20 |-> alpha20, now |-> now,
                    result |-> recall_from_prior_sessions(St, q, session_id, TRUE,
                                                          limit, alpha20, 1, now)]
        /\ UNCHANGED <<db, committed, inTx, index, vbackend, graph_backend, call, lastStored>>

NextExpand == create_session \/ store \/ link \/ recall_expanded

SpecExpand == Init /\ [][NextExpand]_vars

\* C20: every entry recall_from_prior_sessions returns after graph
\* expansion carries the highest of the scores its thought has as a direct
\* semantic hit and as a neighbour of each seed (0.85 of the seed's score),
\* and the list is sorted by score descending and no longer than limit.
RecallMergesByMaxScore ==
    last.op = "recall_expanded" =>
        LET lineage_set == Range(get_session_lineage(db, last.session_id, FALSE))
            semantic == KeepSessions(
                            semantic_search(St, last.query, NoFilters,
                                            Max(30, last.limit * 4), last.alpha20, last.now),
                            lineage_set)
            seeds == Prefix(semantic, 5)
            direct(id) == {semantic[i].score : i \in {j \in 1..Len(semantic) :
                                                         semantic[j].thought.id = id}}
            via_seed(id) ==
                {decayed(seeds[i], get_thought_by_id(db, id)).score :
                    i \in {j \in 1..Len(seeds) :
                             id \in Range(neighbors(db, seeds[j].thought.id, 1, {}, 25))}}
            res == last.result
        IN /\ Len(res) <= last.limit
           /\ \A k \in 1..(Len(res) - 1) : ~FracLess(res[k].score, res[k + 1].score)
           /\ \A k \in 1..Len(res) :
                 \A c \in direct(res[k].thought.id) \cup via_seed(res[k].thought.id) :
                    ~FracLess(res[k].score, c)

\* ------------------------------------------------------------ graph queries
MaxFanOut == 9

\* the edges of a fan 1 -> 2, 1 -> 3
FanEdges == { <<1, 2>>, <<1, 3>> }

\* link(source, target, relation="explicit-reference") along the fan, the
\* same edge as often as the caller likes
link_fan ==
    \E e \in FanEdges :
        LET r == link_result(St, e[1], e[2], "explicit-reference", One, FALSE, FALSE, 0)
        IN /\ Len(db.edges) < MaxFanOut
           /\ SetState(r)
           /\ last' = [op |-> "link", ok |-> r.ok]
           /\ UNCHANGED <<call, lastStored>>

\* neighbors(thought_id, hops=, relations=, limit=) by one thread with no
\* writer between its reads
neighbors_call ==
    \E thought_id \in {1, 2}, hops \in 0..2,
       relations \in { {}, {"semantic-similarity"}, {"explicit-reference"} },
       limit \in 1..2 :
        /\ last' = [op |-> "neighbors", ok |-> TRUE, thought_id |-> thought_id,
                    hops |-> hops, relations |-> relations, limit |-> limit,
                    result |-> neighbors(db, thought_id, hops, relations, limit)]
        /\ UNCHANGED <<db, committed, inTx, index, vbackend, graph_backend, call, lastStored>>

NextNeighbors == link_fan \/ neighbors_call

SpecNeighbors == Init /\ [][NextNeighbors]_vars

\* the ids a directed path of 1..hops edges leads to from the ids of from,
\* every edge of a relation in relations when relations is not empty
RECURSIVE ReachWithin(_, _, _, _)
ReachWithin(rows, from, hops, relations) ==
    IF hops <= 0 THEN {}
    ELSE LET nxt == {rows[i].target_id : i \in {j \in 1..Len(rows) :
                        /\ rows[j].source_id \in from
                        /\ relations = {} \/ rows[j].relation \in relations}}
         IN nxt \cup ReachWithin(rows, nxt, hops - 1, relations)

\* C21: neighbors returns at most limit ids, whatever the graph and the
\* limit >= 1.
NeighborsAtMostLimit ==
    last.op = "neighbors" => Len(last.result) <= last.limit

\* C22: neighbors returns each id once, never the start id, only ids a
\* directed path of 1..hops edges of the given relations reaches, all of
\* them when they are at most limit, and nothing for hops <= 0.
NeighborsAreReachable ==
    last.op = "neighbors" =>
        LET res == last.result
            reach == ReachWithin(db.edges, {last.thought_id}, last.hops, last.relations)
                        \ {last.thought_id}
        IN /\ \A a, b \in 1..Len(res) : a # b => res[a] # res[b]
           /\ last.thought_id \notin Range(res)
           /\ Range(res) \subseteq reach
           /\ Cardinality(reach) <= last.limit => Range(res) = reach
           /\ last.hops <= 0 => res = << >>

\* ---------------------------------------------------------------- find_paths
\* the edges callers link for path queries: a chain 1 -> 2 -> 3, a shortcut
\* 1 -> 3, a way back 2 -> 1, and a second 2 -> 3 of another relation
PathEdges ==
    { <<1, 2, "explicit-reference">>, <<2, 3, "explicit-reference">>,
      <<1, 3, "explicit-reference">>, <<2, 1, "explicit-reference">>,
      <<2, 3, "semantic-similarity">> }

link_path ==
    \E e \in PathEdges :
        LET r == link_result(St, e[1], e[2], e[3], One, FALSE, FALSE, 0)
        IN /\ Len(db.edges) < MaxEdges
           /\ SetState(r)
           /\ last' = [op |-> "link", ok |-> r.ok]
           /\ UNCHANGED <<call, lastStored>>

\* adjacency.get(node, []): the (target, relation) pairs of the node's
\* out-edges in edge_id order
RECURSIVE adjacency(_, _)
adjacency(rows, node) ==
    IF Len(rows) = 0 THEN << >>
    ELSE (IF Head(rows).source_id = node THEN <<Head(rows)>> ELSE << >>)
         \o adjacency(Tail(rows), node)

\* the two tests of the for loop of find_paths that skip an edge,
\* with the relation test left out
path_edge_any(relations, rel, nxt, path) == nxt \notin Range(path)

\* the two tests of the for loop of find_paths that skip an edge
path_edge_ok(relations, rel, nxt, path) ==
    /\ relations = {} \/ rel \in relations
    /\ nxt \notin Range(path)

\* the for loop of find_paths over the out-edges of the last id of path;
\* bfs is [paths, queue]; the loop breaks when paths holds limit paths
RECURSIVE find_paths_rows(_, _, _, _, _, _)
find_paths_rows(bfs, path, rows, target_id, relations, limit) ==
    IF Len(rows) = 0 THEN bfs
    ELSE LET nxt == Head(rows).target_id
             new_path == Append(path, nxt)
         IN IF ~path_edge_ok(relations, Head(rows).relation, nxt, path)
            THEN find_paths_rows(bfs, path, Tail(rows), target_id, relations, limit)
            ELSE IF nxt = target_id
            THEN IF Len(bfs.paths) + 1 >= limit
                 THEN [bfs EXCEPT !.paths = Append(@, new_path)]
                 ELSE find_paths_rows([bfs EXCEPT !.paths = Append(@, new_path)],
                                      path, Tail(rows), target_id, relations, limit)
            ELSE find_paths_rows([bfs EXCEPT !.queue = Append(@, new_path)],
                                 path, Tail(rows), target_id, relations, limit)

\* the while loop of find_paths
RECURSIVE find_paths_loop(_, _, _, _, _, _)
find_paths_loop(rows, bfs, target_id, max_depth, limit, relations) ==
    IF Len(bfs.queue) = 0 \/ Len(bfs.paths) >= limit THEN bfs.paths
    ELSE LET path == Head(bfs.queue)
             popped == [bfs EXCEPT !.queue = Tail(@)]
         IN IF Len(path) - 1 >= max_depth
            THEN find_paths_loop(rows, popped, target_id, max_depth, limit, relations)
            ELSE find_paths_loop(rows,
                     find_paths_rows(popped, path, adjacency(rows, path[Len(path)]),
                                     target_id, relations, limit),
                     target_id, max_depth, limit, relations)

\* find_paths(source_id, target_id, max_depth=, limit=, relations=)
find_paths(tables, source_id, target_id, max_depth, limit, relations) ==
    IF source_id = target_id THEN << <<source_id>> >>
    ELSE find_paths_loop(tables.edges, [paths |-> << >>, queue |-> << <<source_id>> >>],
                         target_id, max_depth, limit, relations)

find_paths_call ==
    \E source_id \in {1, 2}, target_id \in {1, 3}, max_depth \in 0..2, limit \in 1..2,
       relations \in { {}, {"explicit-reference"} } :
        /\ last' = [op |-> "find_paths", ok |-> TRUE, source_id |-> source_id,
                    target_id |-> target_id, max_depth |-> max_depth, limit |-> limit,
                    relations |-> relations,
                    result |-> find_paths(db, source_id, target_id, max_depth, limit,
                                          relations)]
        /\ UNCHANGED <<db, committed, inTx, index, vbackend, graph_backend, call, lastStored>>

NextPaths == link_path \/ find_paths_call

SpecPaths == Init /\ [][NextPaths]_vars

PathsDistinct ==
    last.op = "find_paths" =>
        \A a, b \in 1..Len(last.result) : a # b => last.result[a] # last.result[b]

\* ---------------------------------------------------------- cluster_by_topic
\* the ids of a set in ascending order: sorted(component)
RECURSIVE sorted(_)
sorted(ids) ==
    IF ids = {} THEN << >>
    ELSE LET least == CHOOSE i \in ids : \A j \in ids : i <= j
         IN <<least>> \o sorted(ids \ {least})

\* adjacency.get(cur): the ids a semantic-similarity edge joins to cur, in
\* either direction
semantic_adjacent(rows, cur) ==
    {rows[i].target_id : i \in {j \in 1..Len(rows) :
        rows[j].relation = "semantic-similarity" /\ rows[j].source_id = cur}}
    \cup
    {rows[i].source_id : i \in {j \in 1..Len(rows) :
        rows[j].relation = "semantic-similarity" /\ rows[j].target_id = cur}}

\* the inner while loop of cluster_by_topic: scan is [visited, component]
RECURSIVE cluster_component(_, _, _)
cluster_component(rows, queue, scan) ==
    IF Len(queue) = 0 THEN scan
    ELSE LET cur == Head(queue)
             fresh == semantic_adjacent(rows, cur) \ scan.visited
         IN cluster_component(rows, Tail(queue) \o sorted(fresh),
                [visited |-> scan.visited \cup fresh,
                 component |-> scan.component \cup {cur}])

\* the for loop of cluster_by_topic over the rows of thought_graph_nodes
RECURSIVE cluster_nodes(_, _, _, _, _)
cluster_nodes(rows, nodes, visited, clusters, min_cluster_size) ==
    IF Len(nodes) = 0 THEN clusters
    ELSE IF Head(nodes) \in visited
         THEN cluster_nodes(rows, Tail(nodes), visited, clusters, min_cluster_size)
    ELSE LET scan == cluster_component(rows, <<Head(nodes)>>,
                         [visited |-> visited \cup {Head(nodes)}, component |-> {}])
         IN cluster_nodes(rows, Tail(nodes), scan.visited,
                IF Cardinality(scan.component) >= min_cluster_size
                THEN Append(clusters, sorted(scan.component)) ELSE clusters,
                min_cluster_size)

\* cluster_by_topic(min_cluster_size=) with the built-in backend; the node
\* rows are read in thought_id order
cluster_by_topic(tables, min_cluster_size) ==
    cluster_nodes(tables.edges, sorted(DOMAIN tables.nodes), {}, << >>,
                  Max(1, min_cluster_size))

\* add_thought(thought, store_if_missing=False, semantic_neighbors=0,
\* temporal_link=False): the node upsert alone
add_node ==
    \E thought \in ThoughtInputs :
        /\ SetState(upsert_node(St, thought))
        /\ last' = [op |-> "add_thought", ok |-> TRUE]
        /\ UNCHANGED <<call, lastStored>>

\* the edges callers link for clustering
ClusterEdges ==
    { <<1, 2, "semantic-similarity">>, <<2, 3, "semantic-similarity">>,
      <<3, 1, "semantic-similarity">>, <<1, 2, "explicit-reference">> }

link_cluster ==
    \E e \in ClusterEdges :
        LET r == link_result(St, e[1], e[2], e[3], One, FALSE, FALSE, 0)
        IN /\ Len(db.edges) < MaxEdges
           /\ SetState(r)
           /\ last' = [op |-> "link", ok |-> r.ok]
           /\ UNCHANGED <<call, lastStored>>

cluster_by_topic_call ==
    \E min_cluster_size \in 0..2 :
        /\ last' = [op |-> "cluster_by_topic", ok |-> TRUE,
                    min_cluster_size |-> min_cluster_size,
                    result |-> cluster_by_topic(db, min_cluster_size)]
        /\ UNCHANGED <<db, committed, inTx, index, vbackend, graph_backend, call, lastStored>>

NextClusters == add_node \/ link_cluster \/ cluster_by_topic_call

SpecClusters == Init /\ [][NextClusters]_vars

\* the ids a chain of semantic-similarity edges, in either direction, joins
\* to the ids of ids
RECURSIVE SemanticClosure(_, _)
SemanticClosure(rows, ids) ==
    LET more == ids \cup UNION {semantic_adjacent(rows, i) : i \in ids}
    IN IF more = ids THEN ids ELSE SemanticClosure(rows, more)

\* C25: cluster_by_topic returns exactly the connected components of size
\* >= min_cluster_size of the undirected graph of the semantic-similarity
\* edges, each sorted ascending by id, no id in two clusters.
ClustersAreComponents ==
    last.op = "cluster_by_topic" =>
        LET res == last.result
            vertices == DOMAIN db.nodes \cup
                {db.edges[i].source_id : i \in {j \in 1..Len(db.edges) :
                     db.edges[j].relation = "semantic-similarity"}} \cup
                {db.edges[i].target_id : i \in {j \in 1..Len(db.edges) :
                     db.edges[j].relation = "semantic-similarity"}}
            components == {SemanticClosure(db.edges, {v}) : v \in vertices}
            due == {c \in components : Cardinality(c) >= Max(1, last.min_cluster_size)}
        IN /\ {Range(res[k]) : k \in 1..Len(res)} = due
           /\ \A k \in 1..Len(res) : res[k] = sorted(Range(res[k]))
           /\ \A a, b \in 1..Len(res) : a # b => Range(res[a]) \cap Range(res[b]) = {}

\* ------------------------------------------------------------- temporal link
\* the nodes other than t of t's session that are not later than t
EarlierInSession(tables, t) ==
    {n \in DOMAIN tables.nodes \ {t.id} :
        /\ tables.nodes[n].session_id = t.session_id
        /\ tables.nodes[n].timestamp_utc <= _dt_to_iso(t.timestamp_utc)}

TemporalRows(rows) ==
    {i \in 1..Len(rows) : rows[i].relation = "temporal-successor"}

ReferenceEdges(rows, source_id, target_id) ==
    {i \in 1..Len(rows) : /\ rows[i].source_id = source_id
                          /\ rows[i].target_id = target_id
                          /\ rows[i].relation = "explicit-reference"}

\* C26: when a reflect call on an engine with a graph has succeeded, every
\* stored reflection is a graph node and, when something was recalled, the
\* edge table holds an explicit-reference edge from the first recalled
\* thought to each stored reflection.
ReflectLinksFirstRecalled ==
    call.op = "reflect" /\ call.pc = "done" /\ call.ok /\ call.hasGraph =>
        \A id \in call.stored :
            /\ id \in DOMAIN db.nodes
            /\ call.recalled # None =>
                  ReferenceEdges(db.edges, call.recalled, id) # {}

\* ------------------------------------------------ reflect's session, logged
\* the create_session call of reflect, with the sessions table read before
\* it kept in the history
reflect_session_logged ==
    /\ call.op = "reflect" /\ call.pc = "session"
    /\ LET r == IF /\ call.reflection_session_id # None
                   /\ call.reflection_session_id # call.current_session_id
                THEN create_session_result(St, call.reflection_session_id,
                                           call.current_session_id, FALSE)
                ELSE create_session_result(St, call.current_session_id, None, FALSE)
       IN /\ SetState(r)
          /\ call' = IF call.parsed = << >> THEN [call EXCEPT !.pc = "done"]
                     ELSE [call EXCEPT !.pc = "rstore"]
    /\ last' = [op |-> "reflect_session", ok |-> TRUE, pre |-> db.sessions]
    /\ UNCHANGED lastStored

NextReflectSessions ==
    \/ reflect_begin \/ reflect_recall \/ reflect_session_logged \/ reflect_store
    \/ add_thought_node \/ add_thought_tsel \/ add_thought_tlink
    \/ reflect_link_many \/ call_return

SpecReflectSessions == Init /\ [][NextReflectSessions]_vars

\* the sessions table as a tables record, for the readers of the parent links
SessionsOnly(sessions) == [EmptyTables EXCEPT !.sessions = sessions]

\* C28, first half: a reflect call without reflection_session_id, or with
\* one equal to current_session_id, leaves the parent link of
\* current_session_id as it was, so get_session_lineage(current_session_id)
\* returns the chain it returned before the call.
ReflectKeepsLineage ==
    /\ call.op = "reflect" /\ last.op = "reflect_session"
    /\ call.reflection_session_id \in {None, call.current_session_id}
    => /\ get_session_parent(db, call.current_session_id)
            = get_session_parent(SessionsOnly(last.pre), call.current_session_id)
       /\ get_session_lineage(db, call.current_session_id, TRUE)
            = get_session_lineage(SessionsOnly(last.pre), call.current_session_id, TRUE)

\* C28, second half: with a different reflection_session_id that session
\* is a child of current_session_id once reflect has created it, and the
\* stored reflections carry it as their session_id.
ReflectionSessionIsChild ==
    /\ call.op = "reflect" /\ last.op = "reflect_session"
    /\ call.reflection_session_id \notin {None, call.current_session_id}
    => /\ get_session_parent(db, call.reflection_session_id) = call.current_session_id
       /\ \A id \in call.stored :
             get_thought_by_id(db, id).session_id = call.reflection_session_id

\* C28: both halves
ReflectSessionFrame == ReflectKeepsLineage /\ ReflectionSessionIsChild

\* ------------------------------------- get_session_lineage beside writers
\* the chains get_session_lineage(session_id, include_self=) would return
\* when run against the tables as they stand, as the connection reads them
\* and as committed
chains_now(read, durable, session_id, include_self) ==
    {get_session_lineage(read, session_id, include_self),
     get_session_lineage(durable, session_id, include_self)}

\* get_session_lineage is entered; seen collects the chains of every state
\* of the tables from here to the return
lineage_begin_observed ==
    /\ call = Idle
    /\ \E session_id \in SessionIds, include_self \in BOOLEAN :
          /\ call' = [op |-> "lineage", pc |-> "walk", session_id |-> session_id,
                      include_self |-> include_self,
                      known |-> session_id \in DOMAIN db.sessions,
                      w |-> lineage_start(db, session_id, include_self)]
          /\ last' = [op |-> "lineage_begin", ok |-> TRUE,
                      seen |-> chains_now(db, committed, session_id, include_self)]
    /\ UNCHANGED <<db, committed, inTx, index, vbackend, graph_backend, lastStored>>

\* create_session run by another thread, between two reads of the walk or
\* while no walk is in flight
create_session_observed ==
    \E sid \in SessionIds, parent \in SessionIds \cup {None}, badMeta \in BOOLEAN :
        LET r == create_session_result(St, sid, parent, badMeta) IN
        /\ SetState(r)
        /\ last' = [op |-> "create_session", ok |-> r.ok,
                    seen |-> IF call.op = "lineage"
                             THEN last.seen \cup chains_now(r.db, r.committed,
                                                            call.session_id,
                                                            call.include_self)
                             ELSE {}]
        /\ UNCHANGED <<call, lastStored>>

NextObserved ==
    create_session_observed \/ lineage_begin_observed \/ lineage_step \/ call_return

SpecObserved == Init /\ [][NextObserved]_vars

\* C30: the list get_session_lineage returns is the parent chain of the
\* session in one of the states the tables were in between the start and
\* the return of the call.
LineageLinearizable ==
    call.op = "lineage" /\ call.pc = "done" => call.w.lineage \in last.seen

\* ------------------------------------------------- the in-memory projection
\* The projection as [name, nodes, edges]: the vertices and the (source,
\* target) pairs of the networkx DiGraph or of the igraph Graph.
\* _init_backend picks networkx, else igraph, else the built-in backend.
BackendNames == {"networkx", "igraph", "builtin"}

\* the ids an edge row names
endpoints(rows) ==
    {rows[i].source_id : i \in 1..Len(rows)} \cup {rows[i].target_id : i \in 1..Len(rows)}

\* _rebuild_backend_locked: networkx adds every node row and every edge
\* row, add_edge creating the endpoints it does not know; igraph adds the
\* node rows and only the edges whose two ends are node rows
_rebuild_backend_locked(name, tables) ==
    IF name = "networkx"
    THEN [name |-> name,
          nodes |-> DOMAIN tables.nodes \cup endpoints(tables.edges),
          edges |-> {<<tables.edges[i].source_id, tables.edges[i].target_id>> :
                        i \in 1..Len(tables.edges)}]
    ELSE IF name = "igraph"
    THEN [name |-> name,
          nodes |-> DOMAIN tables.nodes,
          edges |-> {<<tables.edges[i].source_id, tables.edges[i].target_id>> :
                        i \in {j \in 1..Len(tables.edges) :
                                  /\ tables.edges[j].source_id \in DOMAIN tables.nodes
                                  /\ tables.edges[j].target_id \in DOMAIN tables.nodes}}]
    ELSE NoBackend

_backend_add_node_locked(g, thought_id) ==
    IF g.name = "builtin" THEN g
    ELSE [g EXCEPT !.nodes = @ \cup {thought_id}]

\* networkx add_edge and, for igraph, the two _backend_add_node_locked
\* calls and add_edge
_backend_add_edge_locked(g, source_id, target_id) ==
    IF g.name = "builtin" THEN g
    ELSE [g EXCEPT !.nodes = @ \cup {source_id, target_id},
                   !.edges = @ \cup {<<source_id, target_id>>}]

\* the _backend_add_edge_locked calls of link_many's loop over the first k
\* tuples
RECURSIVE project_edges(_, _, _)
project_edges(g, edges, k) ==
    IF k = 0 THEN g
    ELSE LET before == project_edges(g, edges, k - 1)
         IN IF edges[k].source_id = edges[k].target_id THEN before
            ELSE _backend_add_edge_locked(before, edges[k].source_id, edges[k].target_id)

\* the tuples of a link_many call whose INSERT ran: none when the list is
\* empty or BEGIN raises, those before the statement that raises, else all
inserted_count(st, edges, failAt) ==
    LET bad == first_bad_edge(edges)
        stop == IF bad # 0 /\ (failAt = 0 \/ bad <= failAt) THEN bad ELSE failAt
    IN IF Len(edges) = 0 \/ st.inTx THEN 0
       ELSE IF stop > 0 THEN Min(stop - 1, Len(edges))
       ELSE Len(edges)

\* the projection after link_many: _backend_add_edge_locked runs after each
\* INSERT, inside the try, and the except branch rolls back the connection
\* only
link_many_projection(g, st, edges, failAt) ==
    project_edges(g, edges, inserted_count(st, edges, failAt))

InitProjection ==
    /\ db = EmptyTables
    /\ committed = EmptyTables
    /\ inTx = FALSE
    /\ index = << >>
    /\ vbackend = "numpy"
    /\ \E name \in BackendNames : graph_backend = _rebuild_backend_locked(name, EmptyTables)
    /\ call = Idle
    /\ lastStored = << >>
    /\ last = [op |-> "init", ok |-> TRUE]

\* add_thought(thought, store_if_missing=False, semantic_neighbors=0,
\* temporal_link=False)
add_thought_projected ==
    \E thought \in ThoughtInputs :
        /\ SetTables(upsert_node(St, thought))
        /\ graph_backend' = _backend_add_node_locked(graph_backend, thought.id)
        /\ last' = [op |-> "add_thought", ok |-> TRUE]
        /\ UNCHANGED <<call, lastStored>>

link_many_projected ==
    \E edges \in EdgeBatches : \E failAt \in 0..(Len(edges) + 1) :
        LET r == link_many_result(St, edges, failAt) IN
        /\ Len(db.edges) + Sent(edges) <= MaxEdges
        /\ SetTables(r)
        /\ graph_backend' = link_many_projection(graph_backend, St, edges, failAt)
        /\ last' = [op |-> "link_many", ok |-> r.ok]
        /\ UNCHANGED <<call, lastStored>>

link_projected ==
    \E source_id \in ThoughtIds, target_id \in ThoughtIds,
       weight \in {One, -One}, badMeta \in BOOLEAN, bidirectional \in BOOLEAN :
      \E failAt \in 0..(IF bidirectional THEN 3 ELSE 2) :
        LET relation == "explicit-reference"
            edges == link_edges(source_id, target_id, relation, weight, badMeta,
                                bidirectional)
            r == link_result(St, source_id, target_id, relation, weight, badMeta,
                             bidirectional, failAt)
        IN /\ Len(db.edges) + Sent(edges) <= MaxEdges
           /\ SetTables(r)
           /\ graph_backend' = IF source_id = target_id \/ weight < 0
                               THEN graph_backend
                               ELSE link_many_projection(graph_backend, St, edges, failAt)
           /\ last' = [op |-> "link", ok |-> r.ok]
           /\ UNCHANGED <<call, lastStored>>

NextProjection == add_thought_projected \/ link_projected \/ link_many_projected

SpecProjection == InitProjection /\ [][NextProjection]_vars

\* C27: after any sequence of add_thought, link and link_many calls, those
\* link_many calls that fail part-way and roll back included, the
\* in-memory projection holds exactly the nodes and the (source, target)
\* edges that rebuilding it from the node and edge tables produces.
ProjectionMatchesTables ==
    graph_backend = _rebuild_backend_locked(graph_backend.name, db)

====
